---- MODULE Spec2Model ----
(***************************************************************************)
(* Royal Gems admin panel: the Access Gate (both middleware variants),     *)
(* the login handler and the payment-intent handler, as state machines.    *)
(***************************************************************************)
EXTENDS Integers, Sequences, FiniteSets, TLC

VARIABLES
  now,        \* Date.now(), epoch milliseconds
  users,      \* Profile Store: identity id -> UserProfile
  greq,       \* the request the gate is handling
  gpc,        \* the gate's position in middleware()
  gres,       \* the gate's response
  glog,       \* the checks the gate has evaluated for this request, in order
  lreq,       \* the login request being handled
  lpc,        \* the login handler's position in POST()
  lres,       \* the login response
  lcookies,   \* responseCookies: cookies the provider client asked to set
  llog,       \* the steps the login handler has run for this request, in order
  logins,     \* the number of login requests received so far
  payments,   \* the payments table, in insertion order
  audit,      \* the audit log, in insertion order
  preq,       \* per handler invocation: the payment-intent request
  ppc,        \* per handler invocation: its position in POST()
  pres,       \* per handler invocation: the created payment's id and the response
  started,    \* the number of payment-intent requests received so far
  lprev,      \* the login request and response remembered for a comparison
  session,    \* one browser session: its cookie jar and its history
  logoutPc,   \* the logout handler's position in POST()
  logoutRes,  \* the logout request's sign-out result and the response
  gems,       \* the gems table: the ids of the stored gems
  gemSeq,     \* the last id the gems table gave to a new row
  uploads,    \* the files written to the upload directory
  areq,       \* per handler invocation: the admin API request being handled
  ares,       \* per handler invocation: the admin API response
  apc,        \* per handler invocation: its position in the route handler
  handled,    \* the number of admin API requests received so far
  repositoryFactoryInstance,  \* the singleton of lib/repositories and its cached handles
  fcall,      \* per handler invocation: the request that uses the factory, and its position
  flog,       \* the profile lookups made so far: which request, through which client
  profileReq, \* per handler invocation: the profile update and its position in PUT()
  profileRes, \* per handler invocation: its response
  profiled    \* the number of profile updates received so far

gateVars == <<greq, gpc, gres, glog>>
loginVars == <<lreq, lpc, lres, lcookies, llog, logins>>
payVars == <<payments, audit, preq, ppc, pres, started>>
logoutVars == <<logoutPc, logoutRes>>
apiVars == <<gems, gemSeq, uploads, areq, ares, apc, handled>>
factoryVars == <<repositoryFactoryInstance, fcall, flog>>
profileVars == <<profileReq, profileRes, profiled>>
otherVars == <<lprev, session, logoutVars, apiVars, factoryVars, profileVars>>
vars == <<now, users, greq, gpc, gres, glog, lreq, lpc, lres, lcookies, llog, logins,
          payments, audit, preq, ppc, pres, started, lprev, session,
          logoutPc, logoutRes, gems, gemSeq, uploads, areq, ares, apc, handled,
          repositoryFactoryInstance, fcall, flog, profileReq, profileRes, profiled>>

----------------------------------------------------------------------------
(* JavaScript values: strings that may be undefined/null, and numbers that *)
(* may be NaN.  Text(s) is the string whose characters (or pieces) are the *)
(* sequence s; Digits(n) is the decimal string of the integer n.           *)

Undefined == [kind |-> "undefined", text |-> <<>>, n |-> 0]
Text(s) == [kind |-> "text", text |-> s, n |-> 0]
Digits(i) == [kind |-> "digits", text |-> <<>>, n |-> i]

\* !v for a string-or-undefined value: undefined, null and "" are falsy
Not(v) == v.kind = "undefined" \/ (v.kind = "text" /\ v.text = <<>>)

NaN == [nan |-> TRUE, v |-> 0]
Num(i) == [nan |-> FALSE, v |-> i]

\* Number(v): decimal digits parse, "" is 0, any other text and undefined are NaN
Number(v) ==
  IF v.kind = "digits" THEN Num(v.n)
  ELSE IF v.kind = "text" /\ v.text = <<>> THEN Num(0)
  ELSE NaN

\* a - b and a > b on JavaScript numbers: NaN propagates, comparisons with NaN are false
Minus(a, b) == IF a.nan \/ b.nan THEN NaN ELSE Num(a.v - b.v)
Greater(a, b) == ~a.nan /\ ~b.nan /\ a.v > b.v

\* the message of an error a repository call throws; "" is an error without a message
UpstreamMessages == {"", "connection refused"}

\* error.message || fallback
MessageOr(message, fallback) == IF message = "" THEN fallback ELSE message

\* Date.now().toString()
NowString(t) == Digits(t)

\* String.prototype.toLowerCase / toUpperCase on the strings the model uses
toLowerCase(s) ==
  CASE s = "SuperAdmin" -> "superadmin"
    [] s = "Admin" -> "admin"
    [] s = "ADMIN" -> "admin"
    [] s = "Moderator" -> "moderator"
    [] OTHER -> s

toUpperCase(s) ==
  CASE s = "delete" -> "DELETE"
    [] s = "post" -> "POST"
    [] OTHER -> s

\* pathname.startsWith(prefix); a pathname is the sequence of its pieces
startsWith(p, prefix) ==
  Len(p) >= Len(prefix) /\ SubSeq(p, 1, Len(prefix)) = prefix

----------------------------------------------------------------------------
(* Configuration and the Profile Store *)

SESSION_TIMEOUT_DEFAULT == 1800000
sessionTimeoutMs == SESSION_TIMEOUT_DEFAULT

Now0 == 3 * SESSION_TIMEOUT_DEFAULT

\* how many login requests a run handles
MaxLogins == 2

\* identity ids: <<role, is_active, two_factor_enabled>> names the account
UserIds ==
  ({"customer", "admin"} \X BOOLEAN \X BOOLEAN)
    \cup ({"superadmin", "moderator", "Admin", "ADMIN"} \X {TRUE} \X {FALSE})

\* an identity the provider knows that has no UserProfile row
GhostId == <<"ghost", TRUE, FALSE>>

NoProfile == [id |-> <<>>, role |-> "", is_active |-> FALSE,
              two_factor_enabled |-> FALSE, last_login |-> 0,
              email |-> Undefined, first_name |-> Undefined, last_name |-> Undefined,
              phone |-> Undefined]

InitUsers ==
  [u \in UserIds |->
     [id |-> u, role |-> u[1], is_active |-> u[2],
      two_factor_enabled |-> u[3], last_login |-> 0,
      email |-> Text(<<u[1], "@example.com">>), first_name |-> Text(<<"Ann">>),
      last_name |-> Text(<<"Lee">>), phone |-> Undefined]]

\* userRepository.findById(id): the row, or null
findById(store, id) == IF id \in DOMAIN store THEN store[id] ELSE NoProfile

----------------------------------------------------------------------------
(* Access Gate: middleware(), variant "A" is src/middleware.ts, variant    *)
(* "B" is the @supabase/ssr variant.                                       *)

Variants == {"A", "B"}

ADMIN_ROLES(variant) ==
  IF variant = "A"
  THEN {"superadmin", "admin", "moderator"}
  ELSE {"superadmin", "admin", "moderator", "SuperAdmin", "Admin", "Moderator"}

\* no path exempt
PUBLIC_ADMIN_PATHS_None == {}

PUBLIC_ADMIN_PATHS == {<<"/admin", "/login">>}

Pathnames ==
  {<<"/shop">>, <<"/admin", "/login">>, <<"/admin", "/users">>,
   <<"/admin", "/settings", "/roles">>}

Methods == {"GET", "POST", "PUT", "PATCH", "DELETE", "delete"}

CsrfHeaders == {Undefined, Text(<<>>), Text(<<"t1">>), Text(<<"t2">>)}
CsrfCookies == {Undefined, Text(<<>>), Text(<<"t1">>)}

\* lastActivity cookies a client can send at time t
LastActivityCookies(t) ==
  {Undefined, Text(<<>>), Text(<<"a", "b", "c">>), Digits(t),
   Digits(t - sessionTimeoutMs), Digits(t - sessionTimeoutMs - 1)}

\* what supabase.auth.getSession() does for the request
NoSession == [kind |-> "none", uid |-> <<>>]
SessionError == [kind |-> "error", uid |-> <<>>]
SessionThrows == [kind |-> "throw", uid |-> <<>>]
SessionOf(u) == [kind |-> "session", uid |-> u]

GateIdentities ==
  {u \in UserIds : u[2] /\ ~u[3]} \cup {GhostId}

ProviderResults ==
  {NoSession, SessionError, SessionThrows} \cup {SessionOf(u) : u \in GateIdentities}

NoRequest ==
  [variant |-> "", pathname |-> <<>>, method |-> "", csrfHeader |-> Undefined,
   csrfCookie |-> Undefined, lastActivity |-> Undefined, provider |-> NoSession,
   at |-> 0, checked |-> 0]

Pending == [outcome |-> "pending", location |-> "", reason |-> "", lastActivity |-> Undefined]
PassThrough(cookie) == [outcome |-> "next", location |-> "", reason |-> "", lastActivity |-> cookie]
RedirectLogin(reason) ==
  [outcome |-> "redirect", location |-> "/admin/login", reason |-> reason,
   lastActivity |-> Undefined]
RedirectForbidden ==
  [outcome |-> "redirect", location |-> "/403", reason |-> "", lastActivity |-> Undefined]
Thrown == [outcome |-> "throw", location |-> "", reason |-> "", lastActivity |-> Undefined]

\* the subtraction written the wrong way round
IdleExpired_Swapped(lastActivity, t) ==
  Greater(Minus(Number(lastActivity), Num(t)), Num(sessionTimeoutMs))

\* Date.now() - Number(lastActivity) > sessionTimeoutMs
IdleExpired(lastActivity, t) ==
  Greater(Minus(Num(t), Number(lastActivity)), Num(sessionTimeoutMs))

isMutating(m) ==
  LET method == toUpperCase(m)
  IN  method = "POST" \/ method = "PUT" \/ method = "PATCH" \/ method = "DELETE"

\* the comparison alone, without the two emptiness tests
CsrfRejected_CompareOnly(csrfHeader, csrfCookie) == csrfHeader # csrfCookie

\* !csrfHeader || !csrfCookie || csrfHeader !== csrfCookie
CsrfRejected(csrfHeader, csrfCookie) ==
  Not(csrfHeader) \/ Not(csrfCookie) \/ csrfHeader # csrfCookie

\* !session alone, sessionError forgotten
SessionMissing_IgnoresError(provider) == provider.kind \notin {"session", "error"}

\* sessionError || !session, after the variant's handling of a throw
SessionMissing(provider) == provider.kind # "session"

\* pathname.startsWith('/admin/settings') && role !== 'superadmin'
SettingsDenied(variant, pathname, role) ==
  /\ startsWith(pathname, <<"/admin", "/settings">>)
  /\ (IF variant = "A" THEN role ELSE toLowerCase(role)) # "superadmin"

GateFinish(res) ==
  /\ gres' = res
  /\ gpc' = "done"

\* a request arrives: the two path tests before any check
GateReceive(variant, pathname, method, csrfHeader, csrfCookie, lastActivity, provider) ==
  /\ gpc = "ready"
  /\ greq' = [variant |-> variant, pathname |-> pathname, method |-> method,
              csrfHeader |-> csrfHeader, csrfCookie |-> csrfCookie,
              lastActivity |-> lastActivity, provider |-> provider, at |-> now,
              checked |-> 0]
  /\ glog' = <<>>
  /\ IF ~startsWith(pathname, <<"/admin">>) \/ pathname \in PUBLIC_ADMIN_PATHS
     THEN GateFinish(PassThrough(Undefined))
     ELSE gpc' = "idle" /\ gres' = Pending
  /\ UNCHANGED <<now, otherVars, users, loginVars, payVars>>

\* idle-timeout check; the request keeps the Date.now() the check read
GateIdleTimeout ==
  /\ gpc = "idle"
  /\ glog' = Append(glog, "idle")
  /\ greq' = [greq EXCEPT !.checked = now]
  /\ IF greq.variant = "A"
     THEN IF Not(greq.lastActivity) \/ IdleExpired(greq.lastActivity, now)
          THEN GateFinish(RedirectLogin("session_expired"))
          ELSE gpc' = "csrf" /\ UNCHANGED gres
     ELSE IF Not(greq.lastActivity)
          THEN GateFinish(PassThrough(NowString(now)))
          ELSE IF IdleExpired(greq.lastActivity, now)
               THEN GateFinish(RedirectLogin("session_expired"))
               ELSE gpc' = "csrf" /\ UNCHANGED gres
  /\ UNCHANGED <<now, otherVars, users, loginVars, payVars>>

\* the CSRF redirect built but not returned
GateCsrf_NoReturn ==
  /\ gpc = "csrf"
  /\ glog' = IF isMutating(greq.method) THEN Append(glog, "csrf") ELSE glog
  /\ gpc' = "session"
  /\ UNCHANGED <<now, otherVars, users, greq, gres, loginVars, payVars>>

\* CSRF double-submit check, mutating methods only
GateCsrf ==
  /\ gpc = "csrf"
  /\ IF isMutating(greq.method)
     THEN /\ glog' = Append(glog, "csrf")
          /\ IF CsrfRejected(greq.csrfHeader, greq.csrfCookie)
             THEN GateFinish(RedirectForbidden)
             ELSE gpc' = "session" /\ UNCHANGED gres
     ELSE gpc' = "session" /\ UNCHANGED <<gres, glog>>
  /\ UNCHANGED <<now, otherVars, users, greq, loginVars, payVars>>

\* supabase.auth.getSession(); variant A has no try/catch around it
GateSession ==
  /\ gpc = "session"
  /\ glog' = Append(glog, "session")
  /\ IF greq.provider.kind = "throw" /\ greq.variant = "A"
     THEN GateFinish(Thrown)
     ELSE IF SessionMissing(greq.provider)
          THEN GateFinish(RedirectLogin("unauthenticated"))
          ELSE gpc' = "profile" /\ UNCHANGED gres
  /\ UNCHANGED <<now, otherVars, users, greq, loginVars, payVars>>

\* userRepository.findById(session.user.id)
GateProfile ==
  /\ gpc = "profile"
  /\ glog' = Append(glog, "profile")
  /\ IF findById(users, greq.provider.uid) = NoProfile
     THEN GateFinish(RedirectLogin("user_not_found"))
     ELSE gpc' = "role" /\ UNCHANGED gres
  /\ UNCHANGED <<now, otherVars, users, greq, loginVars, payVars>>

\* the role denial sent with a refreshed lastActivity cookie
GateRole_RefreshOnDeny ==
  /\ gpc = "role"
  /\ glog' = Append(glog, "role")
  /\ IF findById(users, greq.provider.uid).role \notin ADMIN_ROLES(greq.variant)
     THEN GateFinish([RedirectForbidden EXCEPT !.lastActivity = NowString(now)])
     ELSE gpc' = "path" /\ UNCHANGED gres
  /\ UNCHANGED <<now, otherVars, users, greq, loginVars, payVars>>

\* ADMIN_ROLES.has(role)
GateRole ==
  /\ gpc = "role"
  /\ glog' = Append(glog, "role")
  /\ IF findById(users, greq.provider.uid).role \notin ADMIN_ROLES(greq.variant)
     THEN GateFinish(RedirectForbidden)
     ELSE gpc' = "path" /\ UNCHANGED gres
  /\ UNCHANGED <<now, otherVars, users, greq, loginVars, payVars>>

\* success that sends the request's own lastActivity back
GatePath_NoRefresh ==
  /\ gpc = "path"
  /\ glog' = Append(glog, "path")
  /\ IF SettingsDenied(greq.variant, greq.pathname, findById(users, greq.provider.uid).role)
     THEN GateFinish(RedirectForbidden)
     ELSE GateFinish(PassThrough(greq.lastActivity))
  /\ UNCHANGED <<now, otherVars, users, greq, loginVars, payVars>>

\* stricter RBAC for /admin/settings, then success: lastActivity := now
GatePath ==
  /\ gpc = "path"
  /\ glog' = Append(glog, "path")
  /\ IF SettingsDenied(greq.variant, greq.pathname, findById(users, greq.provider.uid).role)
     THEN GateFinish(RedirectForbidden)
     ELSE GateFinish(PassThrough(NowString(now)))
  /\ UNCHANGED <<now, otherVars, users, greq, loginVars, payVars>>

\* the response has been sent; the gate is ready for the next request
GateReturn ==
  /\ gpc = "done"
  /\ gpc' = "ready"
  /\ greq' = NoRequest
  /\ gres' = Pending
  /\ glog' = <<>>
  /\ UNCHANGED <<now, otherVars, users, loginVars, payVars>>

GateArrive ==
  /\ gpc = "ready"
  /\ \E variant \in Variants, pathname \in Pathnames, method \in Methods,
     csrfHeader \in CsrfHeaders, csrfCookie \in CsrfCookies,
       lastActivity \in LastActivityCookies(now), provider \in ProviderResults :
         GateReceive(variant, pathname, method, csrfHeader, csrfCookie, lastActivity, provider)

----------------------------------------------------------------------------
(* One browser session in front of the gate: the browser keeps the         *)
(* lastActivity cookie the responses set and sends it back with every      *)
(* request, while time passes between requests.                            *)

\* how many times the clock advances in a run
MaxTicks == 2

\* maxAge, in seconds, of the lastActivity cookie the gate of src/middleware.ts sets
LAST_ACTIVITY_MAX_AGE == 24 * 60 * 60

\* the maxAge option of the lastActivity cookie per variant; 0 stands for none
CookieMaxAge(variant) == IF variant = "A" THEN LAST_ACTIVITY_MAX_AGE ELSE 0

\* the time that passes between two requests
Delays == {1, sessionTimeoutMs, sessionTimeoutMs + 1, LAST_ACTIVITY_MAX_AGE * 1000}

\* no browser yet
NoBrowser ==
  [phase |-> "none", variant |-> "", lastActivity |-> Undefined, expires |-> 0,
   lastAllowed |-> 0, ticks |-> 0, user |-> <<>>, loggedOut |-> FALSE]

\* what the session's browser sends
SessionPathnames ==
  {<<"/admin", "/login">>, <<"/admin", "/users">>, <<"/admin", "/settings", "/roles">>}
SessionMethods == {"GET", "POST"}
SessionCsrfCookie == Text(<<"t1">>)
SessionCsrfHeaders == {Undefined, SessionCsrfCookie}
SessionProviders ==
  {NoSession, SessionOf(<<"admin", TRUE, FALSE>>), SessionOf(<<"superadmin", TRUE, FALSE>>)}

\* the lastActivity cookie the browser sends at time t: none once the cookie's maxAge has run out
JarLastActivity(s, t) ==
  IF s.expires # 0 /\ t >= s.expires THEN Undefined ELSE s.lastActivity

\* the browser stores the lastActivity cookie of the gate's response
StoreLastActivity(s, req, res, t) ==
  IF res.lastActivity = Undefined THEN s
  ELSE [s EXCEPT !.lastActivity = res.lastActivity,
                 !.expires = IF CookieMaxAge(req.variant) = 0 THEN 0
                             ELSE t + CookieMaxAge(req.variant) * 1000]

\* a browser with an empty cookie jar turns to a deployment of one gate variant
SessionOpen(variant) ==
  /\ session.phase = "none"
  /\ session' = [session EXCEPT !.phase = "open", !.variant = variant]
  /\ UNCHANGED <<now, users, gateVars, loginVars, payVars, lprev, logoutVars, apiVars, factoryVars, profileVars>>

\* time passes, between two requests or while a request is being handled
Tick(d) ==
  /\ session.ticks < MaxTicks
  /\ now' = now + d
  /\ session' = [session EXCEPT !.ticks = @ + 1]
  /\ UNCHANGED <<users, gateVars, loginVars, payVars, lprev, logoutVars, apiVars, factoryVars, profileVars>>

----------------------------------------------------------------------------
(* Login handler: POST /api/auth/login *)

\* isAdmin(role) of lib/auth/roles: membership in the privileged-role set
isAdmin(role) == role \in {"superadmin", "admin", "moderator"}

Emails == {Undefined, Text(<<>>), Text(<<"user@example.com">>)}
Passwords == {Undefined, Text(<<>>), Text(<<"secret">>)}
TwoFactorTokens ==
  {Undefined, Text(<<>>), Text(<<"1", "2", "3", "4", "5">>),
   Text(<<"1", "2", "3", "4", "5", "6">>), Text(<<"a", "b", "c", "d", "e", "f">>),
   Text(<<"1", "2", "3", "4", "5", "6", "7">>)}

\* what supabase.auth.signInWithPassword() does for the credentials: an error
\* with its message ("" is an error without one), neither error nor session,
\* a throw, or a session
AuthError(message) == [kind |-> "error", uid |-> <<>>, message |-> message]
AuthRejected == AuthError("Invalid login credentials")
AuthNoSession == [kind |-> "nosession", uid |-> <<>>, message |-> ""]
AuthThrows == [kind |-> "throw", uid |-> <<>>, message |-> ""]
AuthAccepted(u) == [kind |-> "session", uid |-> u, message |-> ""]

\* the messages of the provider's errors
AuthMessages == {"", "Invalid login credentials", "Email not confirmed"}

SignInResults ==
  {AuthError(m) : m \in AuthMessages} \cup {AuthNoSession, AuthThrows}
    \cup {AuthAccepted(u) : u \in UserIds \cup {GhostId}}

\* authError || !authData.session
SignInFailed(signIn) == signIn.kind \in {"error", "nosession"}

\* which persistence call of this request fails, if any
LoginFaults == {"none", "updateLastLogin", "findById"}

NoLogin ==
  [email |-> Undefined, password |-> Undefined, twoFactorToken |-> Undefined,
   signIn |-> AuthRejected, fault |-> "none"]

NoResponse == [status |-> 0, error |-> "", requires2FA |-> FALSE, success |-> FALSE,
               cookies |-> {}]

\* NextResponse.json({error}, {status}): a response that sets no cookie
JsonError(status, error) ==
  [status |-> status, error |-> error, requires2FA |-> FALSE, success |-> FALSE,
   cookies |-> {}]

\* the 200 answer asking for the second factor
Requires2FA ==
  [status |-> 200, error |-> "Two-factor authentication token required",
   requires2FA |-> TRUE, success |-> FALSE, cookies |-> {}]

\* the cookies the provider client sets for a new session
SessionCookies(uid) ==
  {[name |-> "sb-access-token", value |-> Text(<<"access", uid>>)],
   [name |-> "sb-refresh-token", value |-> Text(<<"refresh", uid>>)]}

\* the success response without the lastActivity cookie
LoginSuccess_NoLastActivity(pending, t) ==
  [status |-> 200, error |-> "", requires2FA |-> FALSE, success |-> TRUE,
   cookies |-> pending]

\* the success response: every pending provider cookie, then lastActivity
LoginSuccess(pending, t) ==
  [status |-> 200, error |-> "", requires2FA |-> FALSE, success |-> TRUE,
   cookies |-> pending \cup {[name |-> "lastActivity", value |-> NowString(t)]}]

\* twoFactorToken.length
Length(v) == Len(v.text)

LoginFinish(res) ==
  /\ lres' = res
  /\ lpc' = "done"

\* request.json() and the presence test on email and password
LoginReceive(email, password, twoFactorToken, signIn, fault) ==
  /\ lpc = "ready"
  /\ logins < MaxLogins
  /\ logins' = logins + 1
  /\ lreq' = [email |-> email, password |-> password,
              twoFactorToken |-> twoFactorToken, signIn |-> signIn, fault |-> fault]
  /\ llog' = <<"validate">>
  /\ lcookies' = {}
  /\ IF Not(email) \/ Not(password)
     THEN LoginFinish(JsonError(400, "Email and password are required"))
     ELSE lpc' = "signIn" /\ lres' = NoResponse
  /\ UNCHANGED <<now, otherVars, users, gateVars, payVars>>

\* the provider's rejection not acted on
LoginSignIn_IgnoresError ==
  /\ lpc = "signIn"
  /\ llog' = Append(llog, "signIn")
  /\ IF lreq.signIn.kind = "throw"
     THEN LoginFinish(JsonError(500, "Internal server error")) /\ UNCHANGED lcookies
     ELSE /\ lcookies' = IF SignInFailed(lreq.signIn) THEN lcookies
                         ELSE SessionCookies(lreq.signIn.uid)
          /\ lpc' = "lastLogin"
          /\ UNCHANGED lres
  /\ UNCHANGED <<now, otherVars, users, gateVars, lreq, logins, payVars>>

\* supabase.auth.signInWithPassword(); a new session's cookies go to responseCookies
LoginSignIn ==
  /\ lpc = "signIn"
  /\ llog' = Append(llog, "signIn")
  /\ IF lreq.signIn.kind = "throw"
     THEN LoginFinish(JsonError(500, "Internal server error")) /\ UNCHANGED lcookies
     ELSE IF SignInFailed(lreq.signIn)
          THEN /\ LoginFinish(JsonError(401, MessageOr(lreq.signIn.message,
                                                       "Authentication failed")))
               /\ UNCHANGED lcookies
          ELSE /\ lcookies' = SessionCookies(lreq.signIn.uid)
               /\ lpc' = "lastLogin"
               /\ UNCHANGED lres
  /\ UNCHANGED <<now, otherVars, users, gateVars, lreq, logins, payVars>>

\* the failure of updateLastLogin caught by the handler's outer catch
LoginUpdateLastLogin_Aborts ==
  /\ lpc = "lastLogin"
  /\ llog' = Append(llog, "lastLogin")
  /\ IF lreq.fault = "updateLastLogin"
     THEN LoginFinish(JsonError(500, "Internal server error")) /\ UNCHANGED users
     ELSE /\ users' = IF lreq.signIn.uid \in DOMAIN users
                       THEN [users EXCEPT ![lreq.signIn.uid].last_login = now]
                       ELSE users
          /\ lpc' = "profile"
          /\ UNCHANGED lres
  /\ UNCHANGED <<now, otherVars, gateVars, lreq, lcookies, logins, payVars>>

\* the update made only for a user who has a privileged role
LoginUpdateLastLogin_PrivilegedOnly ==
  /\ lpc = "lastLogin"
  /\ llog' = IF isAdmin(findById(users, lreq.signIn.uid).role)
             THEN Append(llog, "lastLogin") ELSE llog
  /\ users' = IF /\ lreq.fault # "updateLastLogin"
                 /\ lreq.signIn.uid \in DOMAIN users
                 /\ isAdmin(findById(users, lreq.signIn.uid).role)
              THEN [users EXCEPT ![lreq.signIn.uid].last_login = now]
              ELSE users
  /\ lpc' = "profile"
  /\ UNCHANGED <<now, otherVars, gateVars, lreq, lres, lcookies, logins, payVars>>

\* userRepo.updateLastLogin(user.id) in its own try/catch
LoginUpdateLastLogin ==
  /\ lpc = "lastLogin"
  /\ llog' = Append(llog, "lastLogin")
  /\ users' = IF lreq.fault # "updateLastLogin" /\ lreq.signIn.uid \in DOMAIN users
              THEN [users EXCEPT ![lreq.signIn.uid].last_login = now]
              ELSE users
  /\ lpc' = "profile"
  /\ UNCHANGED <<now, otherVars, gateVars, lreq, lres, lcookies, logins, payVars>>

\* userRepo.findById(user.id)
LoginProfile ==
  /\ lpc = "profile"
  /\ llog' = Append(llog, "profile")
  /\ IF lreq.fault = "findById"
     THEN LoginFinish(JsonError(500, "Internal server error"))
     ELSE IF findById(users, lreq.signIn.uid) = NoProfile
          THEN LoginFinish(JsonError(404, "User profile not found"))
          ELSE lpc' = "active" /\ UNCHANGED lres
  /\ UNCHANGED <<now, otherVars, users, gateVars, lreq, lcookies, logins, payVars>>

\* the is_active test left out
LoginActive_Skipped ==
  /\ lpc = "active"
  /\ llog' = Append(llog, "active")
  /\ lpc' = "role"
  /\ UNCHANGED <<now, otherVars, users, gateVars, lreq, lres, lcookies, logins, payVars>>

\* userProfile.is_active
LoginActive ==
  /\ lpc = "active"
  /\ llog' = Append(llog, "active")
  /\ IF ~findById(users, lreq.signIn.uid).is_active
     THEN LoginFinish(JsonError(403, "Account is deactivated"))
     ELSE lpc' = "role" /\ UNCHANGED lres
  /\ UNCHANGED <<now, otherVars, users, gateVars, lreq, lcookies, logins, payVars>>

\* the role check left out
LoginRole_Skipped ==
  /\ lpc = "role"
  /\ llog' = Append(llog, "role")
  /\ lpc' = "twoFactor"
  /\ UNCHANGED <<now, otherVars, users, gateVars, lreq, lres, lcookies, logins, payVars>>

\* isAdmin(userProfile.role)
LoginRole ==
  /\ lpc = "role"
  /\ llog' = Append(llog, "role")
  /\ IF ~isAdmin(findById(users, lreq.signIn.uid).role)
     THEN LoginFinish(JsonError(403, "Access denied. Insufficient privileges."))
     ELSE lpc' = "twoFactor" /\ UNCHANGED lres
  /\ UNCHANGED <<now, otherVars, users, gateVars, lreq, lcookies, logins, payVars>>

\* the second factor asked for only when the field is missing altogether
TokenMissing_UndefinedOnly(twoFactorToken) == twoFactorToken.kind = "undefined"

\* !twoFactorToken
TokenMissing(twoFactorToken) == Not(twoFactorToken)

\* the 2FA step that accepts every supplied code
LoginTwoFactor_AnyCode ==
  /\ lpc = "twoFactor"
  /\ llog' = Append(llog, "twoFactor")
  /\ IF findById(users, lreq.signIn.uid).two_factor_enabled /\ TokenMissing(lreq.twoFactorToken)
     THEN LoginFinish(Requires2FA)
     ELSE LoginFinish(LoginSuccess(lcookies, now))
  /\ UNCHANGED <<now, otherVars, users, gateVars, lreq, lcookies, logins, payVars>>

\* the 2FA step, then the success response with its cookies
LoginTwoFactor ==
  /\ lpc = "twoFactor"
  /\ llog' = Append(llog, "twoFactor")
  /\ IF findById(users, lreq.signIn.uid).two_factor_enabled /\ TokenMissing(lreq.twoFactorToken)
     THEN LoginFinish(Requires2FA)
     ELSE IF findById(users, lreq.signIn.uid).two_factor_enabled
             /\ Length(lreq.twoFactorToken) # 6
          THEN LoginFinish(JsonError(401, "Invalid 2FA code"))
          ELSE LoginFinish(LoginSuccess(lcookies, now))
  /\ UNCHANGED <<now, otherVars, users, gateVars, lreq, lcookies, logins, payVars>>

\* the response has been sent
LoginReturn ==
  /\ lpc = "done"
  /\ lpc' = "ready"
  /\ lreq' = NoLogin
  /\ lres' = NoResponse
  /\ lcookies' = {}
  /\ llog' = <<>>
  /\ UNCHANGED <<now, otherVars, users, gateVars, logins, payVars>>

LoginArrive ==
  /\ lpc = "ready"
  /\ logins < MaxLogins
  /\ \E email \in Emails, password \in Passwords, twoFactorToken \in TwoFactorTokens,
       signIn \in SignInResults, fault \in LoginFaults :
         LoginReceive(email, password, twoFactorToken, signIn, fault)

\* nothing remembered yet
NoObservation == [phase |-> "none", req |-> NoLogin, res |-> NoResponse, flipped |-> <<>>]

\* the finished request and its response are remembered
LoginObserve ==
  /\ lpc = "done"
  /\ lprev.phase = "none"
  /\ lprev' = [phase |-> "seen", req |-> lreq, res |-> lres, flipped |-> <<>>]
  /\ UNCHANGED <<now, users, gateVars, loginVars, payVars, session, logoutVars, apiVars, factoryVars, profileVars>>

\* between the two requests one profile's two_factor_enabled flag is switched
FlipTwoFactor(u) ==
  /\ lpc = "ready"
  /\ lprev.phase = "seen"
  /\ users' = [users EXCEPT ![u].two_factor_enabled = ~@]
  /\ lprev' = [lprev EXCEPT !.phase = "flipped", !.flipped = u]
  /\ UNCHANGED <<now, gateVars, loginVars, payVars, session, logoutVars, apiVars, factoryVars, profileVars>>

\* the first request of a comparison
LoginArriveFirst ==
  /\ lprev.phase = "none"
  /\ logins = 0
  /\ LoginArrive

\* the remembered request is sent again, unchanged
LoginArriveAgain ==
  /\ lprev.phase = "flipped"
  /\ logins = 1
  /\ LoginReceive(lprev.req.email, lprev.req.password, lprev.req.twoFactorToken,
                  lprev.req.signIn, lprev.req.fault)

\* the other outcome of updateLastLogin
OtherLastLoginOutcome(fault) == IF fault = "none" THEN "updateLastLogin" ELSE "none"

\* the first request of a comparison of the two outcomes of updateLastLogin
LoginArriveEither ==
  /\ lprev.phase = "none"
  /\ logins = 0
  /\ lpc = "ready"
  /\ \E email \in Emails, password \in Passwords, twoFactorToken \in TwoFactorTokens,
       signIn \in SignInResults, fault \in {"none", "updateLastLogin"} :
         LoginReceive(email, password, twoFactorToken, signIn, fault)

\* the remembered request is sent again; this time updateLastLogin has the other outcome
LoginArriveOther ==
  /\ lprev.phase = "seen"
  /\ logins = 1
  /\ LoginReceive(lprev.req.email, lprev.req.password, lprev.req.twoFactorToken,
                  lprev.req.signIn, OtherLastLoginOutcome(lprev.req.fault))

----------------------------------------------------------------------------
(* Logout handler: POST /api/auth/logout *)

\* what authService.signOut() does
SignOutResults == {"ok", "error", "throw"}

NoLogout == [signOut |-> "", status |-> 0, error |-> "", success |-> FALSE, cookies |-> {}]

\* response.cookies.set(name, '', cookieOptions) with maxAge 0
ClearedCookie(name) == [name |-> name, value |-> Text(<<>>), maxAge |-> 0]

\* the response of the logout handler for a sign-out result
LogoutResponse(signOut) ==
  CASE signOut = "error" ->
         [signOut |-> signOut, status |-> 400, error |-> "provider message",
          success |-> FALSE, cookies |-> {}]
    [] signOut = "throw" ->
         [signOut |-> signOut, status |-> 500, error |-> "Internal server error",
          success |-> FALSE, cookies |-> {}]
    [] OTHER ->
         [signOut |-> signOut, status |-> 200, error |-> "", success |-> TRUE,
          cookies |-> {ClearedCookie("sb-access-token"), ClearedCookie("sb-refresh-token")}]

\* the whole handler: sign out, then the response
Logout(signOut) ==
  /\ logoutPc = "ready"
  /\ logoutRes' = LogoutResponse(signOut)
  /\ logoutPc' = "done"
  /\ UNCHANGED <<now, users, gateVars, loginVars, payVars, lprev, session, apiVars, factoryVars, profileVars>>

\* the response has been sent
LogoutReturn ==
  /\ logoutPc = "done"
  /\ logoutPc' = "ready"
  /\ logoutRes' = NoLogout
  /\ UNCHANGED <<now, users, gateVars, loginVars, payVars, lprev, session, apiVars, factoryVars, profileVars>>

LogoutArrive ==
  /\ logoutPc = "ready"
  /\ \E signOut \in SignOutResults : Logout(signOut)

----------------------------------------------------------------------------
(* Payment Intent Builder: POST /api/payment/create.  Each element of      *)
(* Procs is one invocation of the handler; invocations interleave at the   *)
(* awaited repository calls.                                               *)

Procs == {"r1", "r2"}

\* how many payment-intent requests a run handles
MaxRequests == 3

AMOUNT_MIN == 1
AMOUNT_MAX == 10000000

\* an amount is the number of hundredths of a currency unit: 50 is 0.50
Hundredths == 100

OrderIds == {Undefined, Text(<<"o1">>), Text(<<"o2">>)}
Amounts == {0, AMOUNT_MIN * Hundredths, (AMOUNT_MAX + 1) * Hundredths}

\* amounts on both sides of the two bounds: -1, 0, 0.01, 0.50, 1, 10,000,000,
\* 10,000,000.01 and 10,000,001
WideAmounts ==
  {0 - Hundredths, 0, 1, 50, AMOUNT_MIN * Hundredths, AMOUNT_MAX * Hundredths,
   AMOUNT_MAX * Hundredths + 1, (AMOUNT_MAX + 1) * Hundredths}

\* currency codes: absent, well-formed, malformed
LKR == Text(<<"L", "K", "R">>)
Currencies == {Undefined, LKR, Text(<<"l", "k", "r", "1">>)}

\* authService.getCurrentUser(): the user's id, or null for a guest
NoUser == "<guest>"
AuthUsers == {NoUser, "admin-1"}

\* which awaited repository call of this request fails, if any
PayFaults == {"none", "findByOrderId", "create-null", "create-throw", "audit"}

\* the faults that are thrown errors, which carry a message
PayThrows == {"findByOrderId", "create-throw", "audit"}

NoPayment == [order_id |-> Undefined, amount |-> 0, currency |-> Undefined,
              authUser |-> NoUser, rateLimited |-> FALSE, fault |-> "none",
              message |-> ""]

\* payhereConfig.merchantId
MERCHANT_ID == Text(<<"m-1">>)

\* formatPayhereAmount(amount): the amount with exactly two decimals, "1.00"
formatPayhereAmount(amount) ==
  Text(<<ToString(amount \div Hundredths), ".",
         ToString((amount % Hundredths) \div 10), ToString(amount % 10)>>)

\* String(amount): the shortest decimal form, "1" or "0.5" or "0.01"
NumberString(amount) ==
  IF amount % Hundredths = 0 THEN Text(<<ToString(amount \div Hundredths)>>)
  ELSE IF amount % 10 = 0
       THEN Text(<<ToString(amount \div Hundredths), ".",
                   ToString((amount % Hundredths) \div 10)>>)
       ELSE formatPayhereAmount(amount)

\* generatePayhereHash({merchant_id, order_id, amount, currency}): the keyed hash,
\* kept as the values it was computed over
generatePayhereHash(merchant_id, order_id, amount, currency) ==
  [over |-> <<merchant_id, order_id, amount, currency>>]

NoFields == [merchant_id |-> Undefined, order_id |-> Undefined, currency |-> Undefined,
             amount |-> Undefined, hash |-> [over |-> <<>>]]

\* the hash computed over the amount as it came in the body
PayhereFields_HashOfRawAmount(req) ==
  LET formattedAmount == formatPayhereAmount(req.amount)
      hash == generatePayhereHash(MERCHANT_ID, req.order_id, NumberString(req.amount),
                                  req.currency)
  IN  [merchant_id |-> MERCHANT_ID, order_id |-> req.order_id, currency |-> req.currency,
       amount |-> formattedAmount, hash |-> hash]

\* formattedAmount, hash and the payhere_fields of the success response
PayhereFields(req) ==
  LET formattedAmount == formatPayhereAmount(req.amount)
      hash == generatePayhereHash(MERCHANT_ID, req.order_id, formattedAmount, req.currency)
  IN  [merchant_id |-> MERCHANT_ID, order_id |-> req.order_id, currency |-> req.currency,
       amount |-> formattedAmount, hash |-> hash]

NoPayResponse == [status |-> 0, error |-> "", payment_id |-> 0, violations |-> <<>>,
                  payhere_fields |-> NoFields]

PayError(status, error) ==
  [status |-> status, error |-> error, payment_id |-> 0, violations |-> <<>>,
   payhere_fields |-> NoFields]

\* the 400 of a validation pass: the prefix and the joined messages of that pass
PayInvalid(prefix, messages) ==
  [status |-> 400, error |-> prefix, payment_id |-> 0, violations |-> messages,
   payhere_fields |-> NoFields]

\* validateInput(body, validationRules): the messages of the violated rules
validateInput(body) ==
  (IF Not(body.order_id) THEN <<"order_id is required">> ELSE <<>>)
    \o (IF body.amount < AMOUNT_MIN * Hundredths THEN <<"amount must be at least 1">>
        ELSE IF body.amount > AMOUNT_MAX * Hundredths
             THEN <<"amount must be at most 10000000">>
        ELSE <<>>)
    \o (IF Not(body.currency) THEN <<"currency is required">> ELSE <<>>)

\* a currency code is three upper-case letters
WellFormedCurrency(c) ==
  /\ c.kind = "text"
  /\ Len(c.text) = 3
  /\ \A i \in 1..Len(c.text) : c.text[i] \in {"D", "K", "L", "R", "S", "U"}

\* validatePaymentData(data): the messages of the payment-specific rules
validatePaymentData(body) ==
  IF WellFormedCurrency(body.currency) THEN <<>> ELSE <<"Invalid currency code">>

\* the body fields of a request
PayBody(order_id, amount, currency) ==
  [order_id |-> order_id, amount |-> amount, currency |-> currency]

\* paymentRepository.findByOrderId(order_id): the rows with that order_id
findByOrderId(table, order_id) ==
  {i \in 1..Len(table) : table[i].order_id = order_id}

\* the row paymentRepository.create() inserts
NewPayment(table, req) ==
  [id |-> Len(table) + 1, order_id |-> req.order_id, user_id |-> req.authUser,
   amount |-> req.amount, currency |-> req.currency, status |-> "pending",
   merchant_id |-> MERCHANT_ID]

\* the PAYMENT_INITIATED entry
AuditEntry(req, payment_id) ==
  [user_id |-> req.authUser, action |-> "PAYMENT_INITIATED",
   resource_type |-> "payment", resource_id |-> payment_id,
   order_id |-> req.order_id]

PayFinish(p, res) ==
  /\ pres' = [pres EXCEPT ![p] = res]
  /\ ppc' = [ppc EXCEPT ![p] = "done"]

\* rate limit, current user, body and the validation passes
PayReceive(p, order_id, amount, currency, authUser, rateLimited, fault, message) ==
  /\ ppc[p] = "ready"
  /\ started < MaxRequests
  /\ started' = started + 1
  /\ preq' = [preq EXCEPT ![p] =
       [order_id |-> order_id, amount |-> amount, currency |-> currency,
        authUser |-> authUser, rateLimited |-> rateLimited, fault |-> fault,
        message |-> message]]
  /\ LET body == PayBody(order_id, amount, currency)
     IN  IF rateLimited
         THEN PayFinish(p, PayError(429, "Too many payment requests. Please try again later."))
         ELSE IF validateInput(body) # <<>>
              THEN PayFinish(p, PayInvalid("Validation failed", validateInput(body)))
         ELSE IF validatePaymentData(body) # <<>>
              THEN PayFinish(p, PayInvalid("Payment validation failed",
                                           validatePaymentData(body)))
         ELSE /\ ppc' = [ppc EXCEPT ![p] = "lookup"]
              /\ pres' = [pres EXCEPT ![p] = NoPayResponse]
  /\ UNCHANGED <<now, otherVars, users, gateVars, loginVars, payments, audit>>

\* the existence check left out
PayLookup_NoCheck(p) ==
  /\ ppc[p] = "lookup"
  /\ IF preq[p].fault = "findByOrderId"
     THEN PayFinish(p, PayError(500, MessageOr(preq[p].message, "Failed to create payment")))
     ELSE ppc' = [ppc EXCEPT ![p] = "create"] /\ UNCHANGED pres
  /\ UNCHANGED <<now, otherVars, users, gateVars, loginVars, payments, audit, preq, started>>

\* paymentRepository.findByOrderId() and the 409
PayLookup(p) ==
  /\ ppc[p] = "lookup"
  /\ IF preq[p].fault = "findByOrderId"
     THEN PayFinish(p, PayError(500, MessageOr(preq[p].message, "Failed to create payment")))
     ELSE IF findByOrderId(payments, preq[p].order_id) # {}
          THEN PayFinish(p, PayError(409, "Payment with this order ID already exists"))
          ELSE ppc' = [ppc EXCEPT ![p] = "create"] /\ UNCHANGED pres
  /\ UNCHANGED <<now, otherVars, users, gateVars, loginVars, payments, audit, preq, started>>

\* paymentRepository.create() and the null test
PayCreate(p) ==
  /\ ppc[p] = "create"
  /\ IF preq[p].fault = "create-throw"
     THEN PayFinish(p, PayError(500, MessageOr(preq[p].message, "Failed to create payment"))) /\ UNCHANGED payments
     ELSE IF preq[p].fault = "create-null"
          THEN /\ PayFinish(p, PayError(500, "Failed to create payment record"))
               /\ UNCHANGED payments
          ELSE /\ payments' = Append(payments, NewPayment(payments, preq[p]))
               /\ pres' = [pres EXCEPT ![p].payment_id = Len(payments) + 1]
               /\ ppc' = [ppc EXCEPT ![p] = "audit"]
  /\ UNCHANGED <<now, otherVars, users, gateVars, loginVars, audit, preq, started>>

\* the audit entry for an authenticated user, then the success response
PayAudit(p) ==
  /\ ppc[p] = "audit"
  /\ IF preq[p].authUser # NoUser /\ preq[p].fault = "audit"
     THEN PayFinish(p, PayError(500, MessageOr(preq[p].message, "Failed to create payment"))) /\ UNCHANGED audit
     ELSE /\ audit' = IF preq[p].authUser # NoUser
                      THEN Append(audit, AuditEntry(preq[p], pres[p].payment_id))
                      ELSE audit
          /\ PayFinish(p, [status |-> 200, error |-> "", payment_id |-> pres[p].payment_id,
                            violations |-> <<>>, payhere_fields |-> PayhereFields(preq[p])])
  /\ UNCHANGED <<now, otherVars, users, gateVars, loginVars, payments, preq, started>>

\* the response has been sent
PayReturn(p) ==
  /\ ppc[p] = "done"
  /\ ppc' = [ppc EXCEPT ![p] = "ready"]
  /\ preq' = [preq EXCEPT ![p] = NoPayment]
  /\ pres' = [pres EXCEPT ![p] = NoPayResponse]
  /\ UNCHANGED <<now, otherVars, users, gateVars, loginVars, payments, audit, started>>

\* the request is answered before any repository call is awaited
AnsweredEarly(order_id, amount, currency, rateLimited) ==
  \/ rateLimited
  \/ validateInput(PayBody(order_id, amount, currency)) # <<>>
  \/ validatePaymentData(PayBody(order_id, amount, currency)) # <<>>

\* the repository failures a request can meet, each with the thrown error's message
PayFaultsOf(order_id, amount, currency, rateLimited) ==
  IF AnsweredEarly(order_id, amount, currency, rateLimited)
  THEN {<<"none", "">>}
  ELSE {<<f, "">> : f \in PayFaults} \cup (PayThrows \X UpstreamMessages)

PayArrive(p) ==
  /\ ppc[p] = "ready"
  /\ started < MaxRequests
  /\ \E order_id \in OrderIds, amount \in Amounts, authUser \in AuthUsers,
       rateLimited \in BOOLEAN :
         \E fm \in PayFaultsOf(order_id, amount, LKR, rateLimited) :
           PayReceive(p, order_id, amount, LKR, authUser, rateLimited, fm[1], fm[2])

\* a request whose body fields range over the boundary values of the validation rules
PayArriveWide(p) ==
  /\ ppc[p] = "ready"
  /\ started < MaxRequests
  /\ \E order_id \in OrderIds, amount \in WideAmounts, currency \in Currencies,
       authUser \in AuthUsers, rateLimited \in BOOLEAN :
         \E fm \in PayFaultsOf(order_id, amount, currency, rateLimited) :
           PayReceive(p, order_id, amount, currency, authUser, rateLimited, fm[1], fm[2])

\* a request that arrives while no other invocation is in flight
PayArriveAlone(p) ==
  /\ \A q \in Procs : ppc[q] \in {"ready", "done"}
  /\ PayArrive(p)

----------------------------------------------------------------------------
(* Admin API route handlers: /api/admin/gems (GET, POST, PUT, DELETE),     *)
(* /api/admin/stats (both versions) and /api/admin/upload.  A handler runs *)
(* when the gate has let the request through.                              *)

\* how many admin API requests a run handles
MaxApiRequests == 2

\* the pathname of each handler's route
ApiPath(handler) ==
  CASE handler \in {"gems.GET", "gems.POST", "gems.PUT", "gems.DELETE"} ->
         <<"/api", "/admin", "/gems">>
    [] handler \in {"stats.GET", "statsHelper.GET"} -> <<"/api", "/admin", "/stats">>
    [] OTHER -> <<"/api", "/admin", "/upload">>

\* the gate's first path test lets the request through to the handler without any check
GateLetsThrough(pathname) == ~startsWith(pathname, <<"/admin">>)

\* authService.getCurrentUser() returned null
Anonymous == <<"<none>", FALSE, FALSE>>

ApiUsers ==
  {Anonymous, <<"superadmin", TRUE, FALSE>>, <<"admin", TRUE, FALSE>>,
   <<"moderator", TRUE, FALSE>>, <<"customer", TRUE, FALSE>>, <<"Admin", TRUE, FALSE>>}

\* the role lists of the handlers
READ_ROLES == {"superadmin", "admin", "moderator"}
WRITE_ROLES == {"superadmin", "admin"}

\* body fields that may be absent
NoPrice == [kind |-> "undefined", n |-> 0]
Price(n) == [kind |-> "number", n |-> n]
GemNames == {Undefined, Text(<<"Opal">>)}
GemPrices == {NoPrice, Price(0 - 1), Price(100)}
GemIds == {0, 1, 2}
Files == {"none", "png", "exe", "huge"}
ApiCsrfCookie == Text(<<"t1">>)
ApiCsrfHeaders == {Undefined, Text(<<"t1">>)}

PRICE_MAX == 10000000

\* which repository call of a gems request fails, and how: the call that changes
\* the gems table throws or returns null, or the audit call throws
NoFault == [at |-> "none", message |-> ""]
Throws(at) == {[at |-> at, message |-> m] : m \in UpstreamMessages}
ReturnsNull == [at |-> "null", message |-> ""]
CreateFaults == {NoFault} \cup Throws("mutate")
UpdateFaults == CreateFaults \cup {ReturnsNull}
AuditFaults == {NoFault} \cup Throws("audit")

\* the handler invocations that can be in flight at the same time
ApiProcs == {"a1", "a2"}

NoApiRequest ==
  [handler |-> "", authUser |-> Anonymous, authError |-> FALSE, rateLimited |-> FALSE,
   csrfHeader |-> Undefined, csrfCookie |-> Undefined,
   id |-> 0, name |-> Undefined, price |-> NoPrice, file |-> "none", fault |-> NoFault]

ApiRequest(handler, authUser, csrfHeader) ==
  [NoApiRequest EXCEPT !.handler = handler, !.authUser = authUser,
                       !.csrfHeader = csrfHeader, !.csrfCookie = ApiCsrfCookie]

NoApiResponse == [status |-> 0, error |-> ""]

\* no admin API request is being handled
ApiIdle == \A p \in ApiProcs : apc[p] = "ready"
ApiResponse(status, error) == [status |-> status, error |-> error]

\* the gems table at the start: one stored gem
InitGems == [i \in {1} |-> [name |-> Text(<<"Ruby">>), price |-> 100]]

\* the id gemRepository.create() gives the new row: ids are not used twice
NextGemId == gemSeq + 1

GemWrites == {"gems.POST", "gems.PUT", "gems.DELETE"}

\* every handler tested against the role list of the read endpoints
HandlerRoles_ReadRoles(handler) == READ_ROLES

\* the role list a handler tests the profile's role against
HandlerRoles(handler) == IF handler \in GemWrites THEN WRITE_ROLES ELSE READ_ROLES

\* the body of a handler's 403
ForbiddenMessage(handler) ==
  IF handler \in {"gems.GET"} \cup GemWrites THEN "Forbidden - Admin access required"
  ELSE "Forbidden"

\* the message a gems handler's catch block falls back on
CatchMessage(handler) ==
  CASE handler = "gems.POST" -> "Failed to create gem"
    [] handler = "gems.PUT" -> "Failed to update gem"
    [] OTHER -> "Failed to delete gem"

\* the action a gems handler records in the audit log
AuditAction(handler) ==
  CASE handler = "gems.POST" -> "CREATE_GEM"
    [] handler = "gems.PUT" -> "UPDATE_GEM"
    [] OTHER -> "DELETE_GEM"

\* the guard left out
AdminGuard_Open(store, authUser, roles) == 0

\* the authentication and role test at the head of every handler: the status
\* of the refusal, or 0 when the user may proceed
AdminGuard(store, authUser, roles) ==
  IF authUser = Anonymous THEN 401
  ELSE IF findById(store, authUser) = NoProfile
            \/ findById(store, authUser).role \notin roles
       THEN 403
       ELSE 0

\* isAdminRole(role) of lib/auth/middleware-helper: membership in the privileged-role set
isAdminRole(role) == role \in {"superadmin", "admin", "moderator"}

\* validateInput(body, validationRules) of the gems POST: name required, price in [0, 10000000]
validateGem(body) ==
  (IF Not(body.name) THEN <<"name is required">> ELSE <<>>)
    \o (IF body.price.kind = "undefined" THEN <<"price is required">>
        ELSE IF body.price.n < 0 THEN <<"price must be at least 0">>
        ELSE IF body.price.n > PRICE_MAX THEN <<"price must be at most 10000000">>
        ELSE <<>>)

\* errors.map(e => e.message).join(', ')
RECURSIVE JoinMessages(_)
JoinMessages(messages) ==
  IF messages = <<>> THEN ""
  ELSE IF Len(messages) = 1 THEN messages[1]
  ELSE messages[1] \o ", " \o JoinMessages(Tail(messages))

\* the entry the gems handlers append
GemAudit(authUser, action, id) ==
  [user_id |-> authUser, action |-> action, resource_type |-> "gem", resource_id |-> id]

\* gemRepository.create(gemData): the table with the new row
CreateGem(table, req) ==
  [i \in DOMAIN table \cup {NextGemId} |->
     IF i = NextGemId THEN [name |-> req.name, price |-> req.price.n] ELSE table[i]]

\* gemRepository.update(id, updateData): only the fields the body provides change
UpdateGem(table, req) ==
  [table EXCEPT ![req.id] =
     [name |-> IF req.name = Undefined THEN @.name ELSE req.name,
      price |-> IF req.price.kind = "undefined" THEN @.price ELSE req.price.n]]

\* gemRepository.delete(id)
DeleteGem(table, req) == [i \in DOMAIN table \ {req.id} |-> table[i]]

\* what an admin API handler leaves alone
apiFrame ==
  <<now, users, gateVars, loginVars, payments, preq, ppc, pres, started, lprev, session,
    logoutVars, factoryVars, profileVars>>

\* the handler returns the response
ApiFinish(p, res) ==
  /\ ares' = [ares EXCEPT ![p] = res]
  /\ apc' = [apc EXCEPT ![p] = "done"]

\* the handler goes on to its next awaited call
ApiGoto(p, pc) ==
  /\ apc' = [apc EXCEPT ![p] = pc]
  /\ UNCHANGED ares

\* a new invocation takes the first slot that is free
FirstFree(p) == apc[p] = "ready" /\ (p = "a2" => apc["a1"] # "ready")

\* the route handler is invoked with the request
ApiReceive(p, req) ==
  /\ FirstFree(p)
  /\ handled < MaxApiRequests
  /\ GateLetsThrough(ApiPath(req.handler))
  /\ handled' = handled + 1
  /\ areq' = [areq EXCEPT ![p] = req]
  /\ apc' = [apc EXCEPT ![p] = IF req.handler = "gems.POST" THEN "limit" ELSE "auth"]
  /\ UNCHANGED <<ares, gems, gemSeq, uploads, audit>>
  /\ UNCHANGED apiFrame

\* rateLimiters.api(clientId) at the head of the gems POST
GemsPOSTLimit(p, rateLimited) ==
  /\ apc[p] = "limit"
  /\ areq' = [areq EXCEPT ![p].rateLimited = rateLimited]
  /\ IF rateLimited
     THEN ApiFinish(p, ApiResponse(429, "Too many requests. Please try again later."))
     ELSE ApiGoto(p, "auth")
  /\ UNCHANGED <<gems, gemSeq, uploads, audit, handled>>
  /\ UNCHANGED apiFrame

\* the call after the role test: the listing, the counts, or the body of the request
AfterGuard(handler) ==
  CASE handler = "gems.GET" -> "find"
    [] handler \in {"stats.GET", "statsHelper.GET"} -> "counts"
    [] OTHER -> "body"

\* authService.getCurrentUser(); in the stats handler built on
\* getAuthenticatedUser(request) the one call that also fetches the profile
ApiAuth(p) ==
  /\ apc[p] = "auth"
  /\ LET req == areq[p]
         user == findById(users, req.authUser)
     IN  IF req.handler = "statsHelper.GET"
         THEN IF req.authError THEN ApiFinish(p, ApiResponse(401, "provider message"))
              ELSE IF user = NoProfile \/ ~isAdminRole(user.role)
                   THEN ApiFinish(p, ApiResponse(403, "Forbidden"))
                   ELSE ApiGoto(p, AfterGuard(req.handler))
         ELSE IF AdminGuard(users, req.authUser, HandlerRoles(req.handler)) = 401
              THEN ApiFinish(p, ApiResponse(401, "Unauthorized"))
              ELSE ApiGoto(p, "profile")
  /\ UNCHANGED <<areq, gems, gemSeq, uploads, audit, handled>>
  /\ UNCHANGED apiFrame

\* userRepository.findById(authUser.id) and the role test
ApiProfile(p) ==
  /\ apc[p] = "profile"
  /\ LET req == areq[p]
     IN  IF AdminGuard(users, req.authUser, HandlerRoles(req.handler)) = 403
         THEN ApiFinish(p, ApiResponse(403, ForbiddenMessage(req.handler)))
         ELSE ApiGoto(p, AfterGuard(req.handler))
  /\ UNCHANGED <<areq, gems, gemSeq, uploads, audit, handled>>
  /\ UNCHANGED apiFrame

\* request.json() of the gems POST and the validation of the body
GemsPOSTBody(p, name, price) ==
  /\ apc[p] = "body"
  /\ areq[p].handler = "gems.POST"
  /\ areq' = [areq EXCEPT ![p].name = name, ![p].price = price]
  /\ LET messages == validateGem(areq'[p])
     IN  IF messages # <<>>
         THEN ApiFinish(p, ApiResponse(400, "Validation failed: " \o JoinMessages(messages)))
         ELSE ApiGoto(p, "write")
  /\ UNCHANGED <<gems, gemSeq, uploads, audit, handled>>
  /\ UNCHANGED apiFrame

\* request.json() of the gems PUT and the test on body.id
GemsPUTBody(p, id, name, price) ==
  /\ apc[p] = "body"
  /\ areq[p].handler = "gems.PUT"
  /\ areq' = [areq EXCEPT ![p].id = id, ![p].name = name, ![p].price = price]
  /\ IF id = 0 THEN ApiFinish(p, ApiResponse(400, "Gem ID is required"))
     ELSE ApiGoto(p, "find")
  /\ UNCHANGED <<gems, gemSeq, uploads, audit, handled>>
  /\ UNCHANGED apiFrame

\* searchParams.get("id") of the gems DELETE and the test on it
GemsDELETEQuery(p, id) ==
  /\ apc[p] = "body"
  /\ areq[p].handler = "gems.DELETE"
  /\ areq' = [areq EXCEPT ![p].id = id]
  /\ IF id = 0 THEN ApiFinish(p, ApiResponse(400, "Gem ID is required"))
     ELSE ApiGoto(p, "find")
  /\ UNCHANGED <<gems, gemSeq, uploads, audit, handled>>
  /\ UNCHANGED apiFrame

\* the read of the gems table: the listing of GET, gemRepository.findById(id)
\* of PUT and DELETE, and the price test of PUT that follows it
GemsFind(p) ==
  /\ apc[p] = "find"
  /\ LET req == areq[p]
     IN  IF req.handler = "gems.GET" THEN ApiFinish(p, ApiResponse(200, ""))
         ELSE IF req.id \notin DOMAIN gems THEN ApiFinish(p, ApiResponse(404, "Gem not found"))
         ELSE IF req.handler = "gems.PUT" /\ req.price.kind = "number" /\ req.price.n < 0
              THEN ApiFinish(p, ApiResponse(400, "Price must be a non-negative number"))
         ELSE ApiGoto(p, "write")
  /\ UNCHANGED <<areq, gems, gemSeq, uploads, audit, handled>>
  /\ UNCHANGED apiFrame

\* the faults the repository call of the handler can have
WriteFaults(handler) == IF handler = "gems.POST" THEN CreateFaults ELSE UpdateFaults

\* update and delete of a row that is not there return null and false
RowMissing(table, req) == req.handler # "gems.POST" /\ req.id \notin DOMAIN table

\* the audit entry written although the repository call failed
GemsWrite_AuditOnFailure(p, fault) ==
  /\ apc[p] = "write"
  /\ areq[p].handler \in GemWrites
  /\ fault \in WriteFaults(areq[p].handler)
  /\ LET req == areq[p]
     IN  IF fault.at \in {"mutate", "null"} \/ RowMissing(gems, req)
         THEN /\ areq' = [areq EXCEPT ![p].fault = fault]
              /\ ApiFinish(p, ApiResponse(500, MessageOr(fault.message,
                                                         CatchMessage(req.handler))))
              /\ audit' = Append(audit, GemAudit(req.authUser, AuditAction(req.handler),
                                                 req.id))
              /\ UNCHANGED <<gems, gemSeq>>
         ELSE /\ areq' = [areq EXCEPT ![p].id =
                            IF req.handler = "gems.POST" THEN NextGemId ELSE @]
              /\ gemSeq' = IF req.handler = "gems.POST" THEN NextGemId ELSE gemSeq
              /\ gems' = CASE req.handler = "gems.POST" -> CreateGem(gems, req)
                           [] req.handler = "gems.PUT" -> UpdateGem(gems, req)
                           [] OTHER -> DeleteGem(gems, req)
              /\ ApiGoto(p, "audit")
              /\ UNCHANGED audit
  /\ UNCHANGED <<uploads, handled>>
  /\ UNCHANGED apiFrame

\* gemRepository.create / update / delete: a throw goes to the catch block, a
\* null or false result is answered 500, otherwise the table changes and the
\* request keeps the id of the row it wrote
GemsWrite(p, fault) ==
  /\ apc[p] = "write"
  /\ areq[p].handler \in GemWrites
  /\ fault \in WriteFaults(areq[p].handler)
  /\ LET req == areq[p]
     IN  IF fault.at = "mutate"
         THEN /\ areq' = [areq EXCEPT ![p].fault = fault]
              /\ ApiFinish(p, ApiResponse(500, MessageOr(fault.message,
                                                         CatchMessage(req.handler))))
              /\ UNCHANGED <<gems, gemSeq>>
         ELSE IF fault.at = "null" \/ RowMissing(gems, req)
         THEN /\ areq' = [areq EXCEPT ![p].fault = fault]
              /\ ApiFinish(p, ApiResponse(500, CatchMessage(req.handler)))
              /\ UNCHANGED <<gems, gemSeq>>
         ELSE /\ areq' = [areq EXCEPT ![p].id =
                            IF req.handler = "gems.POST" THEN NextGemId ELSE @]
              /\ gemSeq' = IF req.handler = "gems.POST" THEN NextGemId ELSE gemSeq
              /\ gems' = CASE req.handler = "gems.POST" -> CreateGem(gems, req)
                           [] req.handler = "gems.PUT" -> UpdateGem(gems, req)
                           [] OTHER -> DeleteGem(gems, req)
              /\ ApiGoto(p, "audit")
  /\ UNCHANGED <<uploads, audit, handled>>
  /\ UNCHANGED apiFrame

\* auditLogRepository.create({...}) and the success response; a throw goes to
\* the catch block
GemsAudit(p, fault) ==
  /\ apc[p] = "audit"
  /\ fault \in AuditFaults
  /\ LET req == areq[p]
     IN  IF fault.at = "audit"
         THEN /\ areq' = [areq EXCEPT ![p].fault = fault]
              /\ ApiFinish(p, ApiResponse(500, MessageOr(fault.message,
                                                         CatchMessage(req.handler))))
              /\ UNCHANGED audit
         ELSE /\ audit' = Append(audit, GemAudit(req.authUser, AuditAction(req.handler),
                                                 req.id))
              /\ ApiFinish(p, ApiResponse(IF req.handler = "gems.POST" THEN 201 ELSE 200, ""))
              /\ UNCHANGED areq
  /\ UNCHANGED <<gems, gemSeq, uploads, handled>>
  /\ UNCHANGED apiFrame

\* the Promise.all of the four count queries of a stats handler
StatsCounts(p) ==
  /\ apc[p] = "counts"
  /\ ApiFinish(p, ApiResponse(200, ""))
  /\ UNCHANGED <<areq, gems, gemSeq, uploads, audit, handled>>
  /\ UNCHANGED apiFrame

\* request.formData() of the upload handler and the tests on the file
UploadForm(p, file) ==
  /\ apc[p] = "body"
  /\ areq[p].handler = "upload.POST"
  /\ areq' = [areq EXCEPT ![p].file = file]
  /\ IF file = "none" THEN ApiFinish(p, ApiResponse(400, "No file uploaded"))
     ELSE IF file = "exe" THEN ApiFinish(p, ApiResponse(400, "Invalid file type"))
     ELSE IF file = "huge" THEN ApiFinish(p, ApiResponse(400, "File too large"))
     ELSE ApiGoto(p, "write")
  /\ UNCHANGED <<gems, gemSeq, uploads, audit, handled>>
  /\ UNCHANGED apiFrame

\* file.arrayBuffer(), then fs.writeFileSync under a new secure file name
UploadWrite(p) ==
  /\ apc[p] = "write"
  /\ areq[p].handler = "upload.POST"
  /\ uploads' = uploads \cup {[file |-> areq[p].file, no |-> Cardinality(uploads) + 1]}
  /\ ApiFinish(p, ApiResponse(200, ""))
  /\ UNCHANGED <<areq, gems, gemSeq, audit, handled>>
  /\ UNCHANGED apiFrame

\* the response has been sent
ApiReturn(p) ==
  /\ apc[p] = "done"
  /\ apc' = [apc EXCEPT ![p] = "ready"]
  /\ areq' = [areq EXCEPT ![p] = NoApiRequest]
  /\ ares' = [ares EXCEPT ![p] = NoApiResponse]
  /\ UNCHANGED <<gems, gemSeq, uploads, audit, handled>>
  /\ UNCHANGED apiFrame

\* a request arrives at one of the /api/admin/gems handlers
GemsArrive(p) ==
  /\ FirstFree(p)
  /\ handled < MaxApiRequests
  /\ \E handler \in {"gems.GET"} \cup GemWrites, authUser \in ApiUsers,
       csrfHeader \in ApiCsrfHeaders :
         ApiReceive(p, ApiRequest(handler, authUser, csrfHeader))

\* the users of the requests that are in flight together
RaceUsers == ApiUsers \ {<<"Admin", TRUE, FALSE>>}

\* the bodies and ids of the requests that are in flight together
RaceNames == {Text(<<"Opal">>)}
RacePrices == {Price(100)}
RaceIds == {1, 2}

\* a request that carries the x-csrf-token header arrives at one of the
\* /api/admin/gems handlers
GemsArriveWithToken(p) ==
  /\ FirstFree(p)
  /\ handled < MaxApiRequests
  /\ \E handler \in {"gems.GET"} \cup GemWrites, authUser \in RaceUsers :
         ApiReceive(p, ApiRequest(handler, authUser, ApiCsrfCookie))

\* a request arrives at the stats or the upload handler
ApiOtherArrive(p) ==
  /\ FirstFree(p)
  /\ handled < MaxApiRequests
  /\ \E handler \in {"stats.GET", "statsHelper.GET", "upload.POST"}, authUser \in ApiUsers,
       authError \in BOOLEAN, csrfHeader \in ApiCsrfHeaders :
         /\ authError => handler = "statsHelper.GET"
         /\ ApiReceive(p, [ApiRequest(handler, authUser, csrfHeader) EXCEPT
                             !.authError = authError])

\* the awaited calls of the gems handlers
GemsSteps(p) ==
  \/ \E rateLimited \in BOOLEAN : GemsPOSTLimit(p, rateLimited)
  \/ ApiAuth(p)
  \/ ApiProfile(p)
  \/ \E name \in GemNames, price \in GemPrices : GemsPOSTBody(p, name, price)
  \/ \E id \in GemIds, name \in GemNames, price \in GemPrices : GemsPUTBody(p, id, name, price)
  \/ \E id \in GemIds : GemsDELETEQuery(p, id)
  \/ GemsFind(p)
  \/ \E fault \in UpdateFaults : GemsWrite(p, fault)
  \/ \E fault \in AuditFaults : GemsAudit(p, fault)
  \/ ApiReturn(p)

\* the awaited calls of the gems handlers for the requests that are in flight together
GemsRaceSteps(p) ==
  \/ \E rateLimited \in BOOLEAN : GemsPOSTLimit(p, rateLimited)
  \/ ApiAuth(p)
  \/ ApiProfile(p)
  \/ \E name \in RaceNames, price \in RacePrices : GemsPOSTBody(p, name, price)
  \/ \E id \in RaceIds, name \in RaceNames, price \in RacePrices :
        GemsPUTBody(p, id, name, price)
  \/ \E id \in RaceIds : GemsDELETEQuery(p, id)
  \/ GemsFind(p)
  \/ \E fault \in UpdateFaults : GemsWrite(p, fault)
  \/ \E fault \in AuditFaults : GemsAudit(p, fault)
  \/ ApiReturn(p)

\* the awaited calls of the stats and upload handlers
ApiOtherSteps(p) ==
  \/ StatsCounts(p)
  \/ \E file \in Files : UploadForm(p, file)
  \/ UploadWrite(p)

----------------------------------------------------------------------------
(* The repository factory of lib/repositories: one module-level singleton  *)
(* that the handlers ask for repository handles.  A client is named by the *)
(* request it was built for; the client of lib/supabase is shared.         *)

\* how many requests a run sends through the factory
MaxFactoryRequests == 2

NoClient == [owner |-> "none", no |-> 0]
SharedClient == [owner |-> "module", no |-> 0]
\* createServerClient(...) of request n, bound to that request's cookies
ClientOf(n) == [owner |-> "request", no |-> n]

\* let repositoryFactoryInstance = null
NoFactory == [created |-> FALSE, supabase |-> NoClient, userRepository |-> NoClient]

\* the handlers that look a profile up through the factory
FactoryHandlers == {"gate", "login"}

\* the handler invocations that can be in flight at the same time
FactoryProcs == {"f1", "f2"}

NoFactoryCall == [no |-> 0, handler |-> "", client |-> NoClient, pc |-> "ready",
                  userRepository |-> NoClient, error |-> ""]

\* getRepositoryFactory called without a client while there is no factory:
\* throw new Error('Supabase client is required ...')
FactoryThrows(instance, supabase) == ~instance.created /\ supabase = NoClient

\* getRepositoryFactory(supabase): the singleton, created by the first call
\* that brings a client; a call that throws leaves it null
getRepositoryFactory(instance, supabase) ==
  IF instance.created \/ supabase = NoClient
  THEN instance
  ELSE [created |-> TRUE, supabase |-> supabase, userRepository |-> NoClient]

\* getUserRepository(): the handle, created lazily with the factory's client
getUserRepository(instance) ==
  IF instance.userRepository = NoClient
  THEN [instance EXCEPT !.userRepository = instance.supabase]
  ELSE instance

\* the factory after src/middleware.ts has been imported:
\* const userRepository = getRepositoryFactory(supabase).getUserRepository()
ModuleFactory == getUserRepository(getRepositoryFactory(NoFactory, SharedClient))

factoryFrame ==
  <<now, users, gateVars, loginVars, payVars, lprev, session, logoutVars, apiVars, profileVars>>

\* a route module is imported and asks the factory, with the shared client,
\* for its handles; withUser: the user handle is one of them. An existing
\* factory is returned as it is and keeps its client
FactoryModuleLoad(withUser) ==
  /\ repositoryFactoryInstance' =
       IF withUser
       THEN getUserRepository(getRepositoryFactory(repositoryFactoryInstance, SharedClient))
       ELSE getRepositoryFactory(repositoryFactoryInstance, SharedClient)
  /\ UNCHANGED <<fcall, flog>>
  /\ UNCHANGED factoryFrame

\* resetRepositoryFactory()
FactoryReset ==
  /\ repositoryFactoryInstance.created
  /\ repositoryFactoryInstance' = NoFactory
  /\ UNCHANGED <<fcall, flog>>
  /\ UNCHANGED factoryFrame

\* the number of the request that arrived last
FactoryCount ==
  CHOOSE n \in 0..MaxFactoryRequests :
    /\ \A p \in FactoryProcs : fcall[p].no <= n
    /\ n = 0 \/ \E p \in FactoryProcs : fcall[p].no = n

\* a new invocation takes the first slot that is free
FactoryFree(p) == fcall[p].pc = "ready" /\ (p = "f2" => fcall["f1"].pc # "ready")

\* a request arrives and the handler builds its cookie-bound client; it then
\* waits for the session (gate) or for the body and the sign-in (login)
FactoryArrive(p, handler) ==
  /\ FactoryFree(p)
  /\ FactoryCount < MaxFactoryRequests
  /\ fcall' = [fcall EXCEPT ![p] =
                 [no |-> FactoryCount + 1, handler |-> handler,
                  client |-> ClientOf(FactoryCount + 1), pc |-> "factory",
                  userRepository |-> NoClient, error |-> ""]]
  /\ UNCHANGED <<repositoryFactoryInstance, flog>>
  /\ UNCHANGED factoryFrame

\* the lookup findById makes through the handle the invocation holds
Lookup(call, handle) == [request |-> call.no, handler |-> call.handler, client |-> handle]

\* getRepositoryFactory(supabase).getUserRepository() with the request's
\* client; the gate calls findById on the handle, the login handler
\* updateLastLogin, and both wait for the answer
FactoryGet(p) ==
  /\ fcall[p].pc = "factory"
  /\ repositoryFactoryInstance' =
       getUserRepository(getRepositoryFactory(repositoryFactoryInstance, fcall[p].client))
  /\ LET handle == repositoryFactoryInstance'.userRepository
     IN  IF fcall[p].handler = "login"
         THEN /\ fcall' = [fcall EXCEPT ![p].userRepository = handle, ![p].pc = "again"]
              /\ UNCHANGED flog
         ELSE /\ fcall' = [fcall EXCEPT ![p].userRepository = handle, ![p].pc = "done"]
              /\ flog' = Append(flog, Lookup(fcall[p], handle))
  /\ UNCHANGED factoryFrame

\* the login handler's second getRepositoryFactory(), without argument: it
\* throws when there is no factory and the catch block answers 500; otherwise
\* getUserRepository() and findById on the handle
FactoryGetAgain(p) ==
  /\ fcall[p].pc = "again"
  /\ IF FactoryThrows(repositoryFactoryInstance, NoClient)
     THEN /\ fcall' = [fcall EXCEPT ![p].error = "Internal server error", ![p].pc = "done"]
          /\ UNCHANGED <<repositoryFactoryInstance, flog>>
     ELSE /\ repositoryFactoryInstance' =
               getUserRepository(getRepositoryFactory(repositoryFactoryInstance, NoClient))
          /\ LET handle == repositoryFactoryInstance'.userRepository
             IN  /\ fcall' = [fcall EXCEPT ![p].userRepository = handle, ![p].pc = "done"]
                 /\ flog' = Append(flog, Lookup(fcall[p], handle))
  /\ UNCHANGED factoryFrame

\* the response has been sent
FactoryReturn(p) ==
  /\ fcall[p].pc = "done"
  /\ fcall' = [fcall EXCEPT ![p] = [NoFactoryCall EXCEPT !.no = fcall[p].no]]
  /\ UNCHANGED <<repositoryFactoryInstance, flog>>
  /\ UNCHANGED factoryFrame

----------------------------------------------------------------------------
(* Profile handler: GET and PUT /api/auth/profile *)

\* how many profile requests a run handles
MaxProfileRequests == 2

\* the exported handlers
ProfileMethods == {"GET", "PUT"}

\* who sends the request: nobody, a user with a profile, one without
ProfileCallers == {Anonymous, <<"admin", TRUE, FALSE>>, GhostId}

FirstNames == {Undefined, Text(<<"Bob">>)}
LastNames == {Undefined, Text(<<"Ray">>)}
Phones == {Undefined, Text(<<"555">>)}
\* a role the body may carry although the handler does not read it; "" is none
BodyRoles == {"", "superadmin"}

\* what the repository call does: works, throws, or returns null
ProfileFaults == {"none", "throw", "null"}

\* the handler invocations that can be in flight at the same time
ProfileProcs == {"u1", "u2"}

NoProfileRequest ==
  [method |-> "", authUser |-> Anonymous, firstName |-> Undefined, lastName |-> Undefined,
   phone |-> Undefined, role |-> "", pc |-> "ready"]

\* the handler's JSON response; user is the row its body reports, if any
ProfileResponse(status, error, user) == [status |-> status, error |-> error, user |-> user]
NoProfileResponse == ProfileResponse(0, "", NoProfile)
ProfileError(status, error) == ProfileResponse(status, error, NoProfile)

\* a column given as undefined keeps its value
Given(value, old) == IF value = Undefined THEN old ELSE value

\* userRepo.updateProfile(id, fields): the table with the given columns of row id set
updateProfile(store, id, fields) ==
  IF id \notin DOMAIN store THEN store
  ELSE [store EXCEPT ![id] =
          [@ EXCEPT !.first_name = Given(fields.first_name, @),
                    !.last_name = Given(fields.last_name, @),
                    !.phone = Given(fields.phone, @),
                    !.role = IF fields.role = "" THEN @ ELSE fields.role]]

profileFrame ==
  <<now, gateVars, loginVars, payVars, lprev, session, logoutVars, apiVars, fcall, flog>>

\* the handler returns the response; the body is not kept beyond it
ProfileFinish(p, res) ==
  /\ profileRes' = [profileRes EXCEPT ![p] = res]
  /\ profileReq' = [profileReq EXCEPT ![p] =
                      [NoProfileRequest EXCEPT !.method = profileReq[p].method,
                                               !.authUser = profileReq[p].authUser,
                                               !.pc = "done"]]

\* a new invocation takes the first slot that is free
ProfileFree(p) == profileReq[p].pc = "ready" /\ (p = "u2" => profileReq["u1"].pc # "ready")

\* a profile request arrives and the handler asks for the current user
ProfileArrive(p, method, authUser) ==
  /\ ProfileFree(p)
  /\ profiled < MaxProfileRequests
  /\ profiled' = profiled + 1
  /\ profileReq' = [profileReq EXCEPT ![p] = [NoProfileRequest EXCEPT !.method = method,
                                                                     !.authUser = authUser,
                                                                     !.pc = "auth"]]
  /\ UNCHANGED <<users, profileRes, repositoryFactoryInstance>>
  /\ UNCHANGED profileFrame

\* authService.getCurrentUser() has answered: 401 without a user. PUT then
\* waits for the body. GET goes on to getRepositoryFactory() without a
\* client, which throws when there is no factory and the catch block answers
\* 500, otherwise to getUserRepository() and the call of findById
ProfileAuth(p) ==
  /\ profileReq[p].pc = "auth"
  /\ IF profileReq[p].authUser = Anonymous
     THEN /\ ProfileFinish(p, ProfileError(401, "Unauthorized"))
          /\ UNCHANGED repositoryFactoryInstance
     ELSE IF profileReq[p].method = "PUT"
     THEN /\ profileReq' = [profileReq EXCEPT ![p].pc = "body"]
          /\ UNCHANGED <<profileRes, repositoryFactoryInstance>>
     ELSE IF FactoryThrows(repositoryFactoryInstance, NoClient)
     THEN /\ ProfileFinish(p, ProfileError(500, "Internal server error"))
          /\ UNCHANGED repositoryFactoryInstance
     ELSE /\ repositoryFactoryInstance' =
               getUserRepository(getRepositoryFactory(repositoryFactoryInstance, NoClient))
          /\ profileReq' = [profileReq EXCEPT ![p].pc = "find"]
          /\ UNCHANGED profileRes
  /\ UNCHANGED <<users, profiled>>
  /\ UNCHANGED profileFrame

\* GET: userRepo.findById(user.id) has answered: a throw is 500, null is
\* 404, otherwise the response reports the row
ProfileFind(p, fault) ==
  /\ profileReq[p].pc = "find"
  /\ IF fault = "throw"
     THEN ProfileFinish(p, ProfileError(500, "Internal server error"))
     ELSE IF fault = "null" \/ findById(users, profileReq[p].authUser) = NoProfile
     THEN ProfileFinish(p, ProfileError(404, "User profile not found"))
     ELSE ProfileFinish(p, ProfileResponse(200, "", findById(users, profileReq[p].authUser)))
  /\ UNCHANGED <<users, profiled, repositoryFactoryInstance>>
  /\ UNCHANGED profileFrame

\* PUT: request.json() has answered; getRepositoryFactory() without a client
\* throws when there is no factory and the catch block answers 500, otherwise
\* getUserRepository() and the call of updateProfile
ProfileBody(p, firstName, lastName, phone, role) ==
  /\ profileReq[p].pc = "body"
  /\ IF FactoryThrows(repositoryFactoryInstance, NoClient)
     THEN /\ ProfileFinish(p, ProfileError(500, "Internal server error"))
          /\ UNCHANGED repositoryFactoryInstance
     ELSE /\ repositoryFactoryInstance' =
               getUserRepository(getRepositoryFactory(repositoryFactoryInstance, NoClient))
          /\ profileReq' = [profileReq EXCEPT ![p].firstName = firstName,
                                              ![p].lastName = lastName,
                                              ![p].phone = phone, ![p].role = role,
                                              ![p].pc = "update"]
          /\ UNCHANGED profileRes
  /\ UNCHANGED <<users, profiled>>
  /\ UNCHANGED profileFrame

\* the handler that hands the whole body to the repository
ProfileUpdate_WholeBody(p, fault) ==
  /\ profileReq[p].pc = "update"
  /\ LET req == profileReq[p]
     IN  IF fault = "throw"
         THEN /\ ProfileFinish(p, ProfileError(500, "Internal server error"))
              /\ UNCHANGED users
         ELSE IF fault = "null" \/ req.authUser \notin DOMAIN users
         THEN /\ ProfileFinish(p, ProfileError(400, "Failed to update profile"))
              /\ UNCHANGED users
         ELSE /\ users' = updateProfile(users, req.authUser,
                             [first_name |-> req.firstName, last_name |-> req.lastName,
                              phone |-> req.phone, role |-> req.role])
              /\ ProfileFinish(p, ProfileResponse(200, "", users'[req.authUser]))
  /\ UNCHANGED <<profiled, repositoryFactoryInstance>>
  /\ UNCHANGED profileFrame

\* PUT: userRepo.updateProfile(user.id, {first_name, last_name, phone}) has
\* answered: a throw is 500, null is 400, otherwise the row is written and
\* the response reports it
ProfileUpdate(p, fault) ==
  /\ profileReq[p].pc = "update"
  /\ LET req == profileReq[p]
     IN  IF fault = "throw"
         THEN /\ ProfileFinish(p, ProfileError(500, "Internal server error"))
              /\ UNCHANGED users
         ELSE IF fault = "null" \/ req.authUser \notin DOMAIN users
         THEN /\ ProfileFinish(p, ProfileError(400, "Failed to update profile"))
              /\ UNCHANGED users
         ELSE /\ users' = updateProfile(users, req.authUser,
                             [first_name |-> req.firstName, last_name |-> req.lastName,
                              phone |-> req.phone, role |-> ""])
              /\ ProfileFinish(p, ProfileResponse(200, "", users'[req.authUser]))
  /\ UNCHANGED <<profiled, repositoryFactoryInstance>>
  /\ UNCHANGED profileFrame

\* the response has been sent
ProfileReturn(p) ==
  /\ profileReq[p].pc = "done"
  /\ profileReq' = [profileReq EXCEPT ![p] = NoProfileRequest]
  /\ profileRes' = [profileRes EXCEPT ![p] = NoProfileResponse]
  /\ UNCHANGED <<users, profiled, repositoryFactoryInstance>>
  /\ UNCHANGED profileFrame

\* the awaited calls of the profile handler
ProfileSteps(p) ==
  \/ \E method \in ProfileMethods, authUser \in ProfileCallers :
       ProfileArrive(p, method, authUser)
  \/ ProfileAuth(p)
  \/ \E fault \in ProfileFaults : ProfileFind(p, fault)
  \/ \E firstName \in FirstNames, lastName \in LastNames, phone \in Phones,
       role \in BodyRoles : ProfileBody(p, firstName, lastName, phone, role)
  \/ \E fault \in ProfileFaults : ProfileUpdate(p, fault)
  \/ ProfileReturn(p)

----------------------------------------------------------------------------
(* The browser session, continued: login, requests and responses *)

\* the browser sends a request with the lastActivity cookie of its jar
SessionSend ==
  /\ gpc = "ready"
  /\ lpc = "ready"
  /\ session.phase # "none"
  /\ \E pathname \in SessionPathnames, method \in SessionMethods,
       csrfHeader \in SessionCsrfHeaders, provider \in SessionProviders :
         GateReceive(session.variant, pathname, method, csrfHeader, SessionCsrfCookie,
                     JarLastActivity(session, now), provider)

\* the response reaches the browser, which stores its lastActivity cookie
SessionDeliver ==
  /\ gpc = "done"
  /\ session.phase # "none"
  /\ session' =
       [StoreLastActivity(session, greq, gres, now) EXCEPT
          !.phase = IF @ = "fresh" THEN "used" ELSE @,
          !.lastAllowed =
             IF /\ gres.outcome = "next"
                /\ startsWith(greq.pathname, <<"/admin">>)
                /\ greq.pathname \notin PUBLIC_ADMIN_PATHS
             THEN Number(gres.lastActivity).v ELSE @]
  /\ gpc' = "ready"
  /\ greq' = NoRequest
  /\ gres' = Pending
  /\ glog' = <<>>
  /\ UNCHANGED <<now, users, loginVars, payVars, lprev, logoutVars, apiVars, factoryVars, profileVars>>

\* the value of the lastActivity cookie a response sets; undefined when it sets none
LastActivityOf(cookies) ==
  IF \E c \in cookies : c.name = "lastActivity"
  THEN (CHOOSE c \in cookies : c.name = "lastActivity").value
  ELSE Undefined

\* the user whose provider token cookies a response sets; none when it sets none
TokenUserOf(cookies) ==
  IF \E c \in cookies : c.name = "sb-access-token"
  THEN (CHOOSE c \in cookies : c.name = "sb-access-token").value.text[2]
  ELSE <<>>

\* the browser posts to the logout handler
SessionLogout ==
  /\ gpc = "ready"
  /\ lpc = "ready"
  /\ session.phase # "none"
  /\ ~session.loggedOut
  /\ LogoutArrive

\* the logout response reaches the browser, which drops the cookies it clears
SessionLogoutDeliver ==
  /\ logoutPc = "done"
  /\ session.phase # "none"
  /\ session' =
       [session EXCEPT
          !.user = IF \E c \in logoutRes.cookies : c.name = "sb-access-token" /\ c.maxAge = 0
                   THEN <<>> ELSE @,
          !.lastActivity = IF \E c \in logoutRes.cookies : c.name = "lastActivity" /\ c.maxAge = 0
                           THEN Undefined ELSE @,
          !.loggedOut = logoutRes.success]
  /\ logoutPc' = "ready"
  /\ logoutRes' = NoLogout
  /\ UNCHANGED <<now, users, gateVars, loginVars, payVars, lprev, apiVars, factoryVars, profileVars>>

\* supabase.auth.getSession() for the cookies of the jar: the session of the
\* user whose token cookies the browser holds
JarSession(s) == IF s.user = <<>> THEN NoSession ELSE SessionOf(s.user)

\* what supabase.auth.getSession() can return to the gate: the client the
\* gate of unnamed/part_000 builds for the request reads the token cookies
\* of the jar; the client of src/middleware.ts is the one the module imports,
\* which never sees the request's cookies and returns whatever session it holds
GateProviders(s) ==
  IF s.variant = "B" THEN {JarSession(s)} ELSE SessionProviders

\* the browser sends a request with the cookies of its jar
SessionSendJar ==
  /\ gpc = "ready"
  /\ lpc = "ready"
  /\ logoutPc = "ready"
  /\ session.phase # "none"
  /\ \E pathname \in SessionPathnames, method \in SessionMethods,
       csrfHeader \in SessionCsrfHeaders, provider \in GateProviders(session) :
         GateReceive(session.variant, pathname, method, csrfHeader, SessionCsrfCookie,
                     JarLastActivity(session, now), provider)

\* the sign-in results of the users who log in from the session's browser
SessionSignIns ==
  {AuthRejected, AuthAccepted(<<"admin", TRUE, FALSE>>), AuthAccepted(<<"admin", TRUE, TRUE>>),
   AuthAccepted(<<"customer", TRUE, FALSE>>)}

\* the browser posts a login form to the login handler
SessionLoginArrive ==
  /\ lpc = "ready"
  /\ gpc = "ready"
  /\ logoutPc = "ready"
  /\ session.phase # "none"
  /\ logins < MaxLogins
  /\ \E email \in Emails, password \in Passwords, twoFactorToken \in TwoFactorTokens,
       signIn \in SessionSignIns, fault \in LoginFaults :
         LoginReceive(email, password, twoFactorToken, signIn, fault)

\* the browser posts a filled-in login form, without a 2FA code, to the login handler
SessionLoginPost ==
  /\ lpc = "ready"
  /\ gpc = "ready"
  /\ logoutPc = "ready"
  /\ session.phase # "none"
  /\ logins < MaxLogins
  /\ \E signIn \in SessionSignIns, fault \in LoginFaults :
         LoginReceive(Text(<<"user@example.com">>), Text(<<"secret">>), Undefined,
                      signIn, fault)

\* the login response reaches the browser, which stores the cookies it sets:
\* with the provider's token cookies and lastActivity the session starts
SessionLoginDeliver ==
  /\ lpc = "done"
  /\ session.phase # "none"
  /\ session' =
       IF LastActivityOf(lres.cookies) = Undefined THEN session
       ELSE [session EXCEPT !.phase = "fresh",
                            !.lastActivity = LastActivityOf(lres.cookies),
                            !.expires = 0,
                            !.lastAllowed = Number(LastActivityOf(lres.cookies)).v,
                            !.user = TokenUserOf(lres.cookies),
                            !.loggedOut = FALSE]
  /\ lpc' = "ready"
  /\ lreq' = NoLogin
  /\ lres' = NoResponse
  /\ lcookies' = {}
  /\ llog' = <<>>
  /\ UNCHANGED <<now, users, gateVars, logins, payVars, lprev, logoutVars, apiVars, factoryVars, profileVars>>

\* the time that passes after a login: a millisecond, the timeout less a
\* millisecond, the timeout
WaitDelays == {1, sessionTimeoutMs - 1, sessionTimeoutMs}

\* time passes after the login, before the first request of the session or
\* while the gate handles it
SessionWait(d) ==
  /\ d \in WaitDelays
  /\ session.phase = "fresh"
  /\ session.ticks < MaxTicks
  /\ now' = now + d
  /\ session' = [session EXCEPT !.ticks = @ + 1]
  /\ UNCHANGED <<users, gateVars, loginVars, payVars, lprev, logoutVars, apiVars, factoryVars, profileVars>>

\* the browser sends the first request of the session with the cookies of the login
SessionSendFirst ==
  /\ gpc = "ready"
  /\ session.phase = "fresh"
  /\ \E pathname \in SessionPathnames, method \in SessionMethods,
       csrfHeader \in SessionCsrfHeaders, provider \in SessionProviders :
         GateReceive(session.variant, pathname, method, csrfHeader, SessionCsrfCookie,
                     JarLastActivity(session, now), provider)

\* the answer to the first request reaches the browser
SessionDeliverFirst ==
  /\ gpc = "done"
  /\ session.phase = "fresh"
  /\ session' = [StoreLastActivity(session, greq, gres, now) EXCEPT !.phase = "used"]
  /\ gpc' = "ready"
  /\ greq' = NoRequest
  /\ gres' = Pending
  /\ glog' = <<>>
  /\ UNCHANGED <<now, users, loginVars, payVars, lprev, logoutVars, apiVars, factoryVars, profileVars>>

SessionLoginSteps ==
  \/ LoginSignIn
  \/ LoginUpdateLastLogin
  \/ LoginProfile
  \/ LoginActive
  \/ LoginRole
  \/ LoginTwoFactor

SessionGateSteps ==
  \/ GateIdleTimeout
  \/ GateCsrf
  \/ GateSession
  \/ GateProfile
  \/ GateRole
  \/ GatePath

----------------------------------------------------------------------------
Init ==
  /\ now = Now0
  /\ users = InitUsers
  /\ greq = NoRequest
  /\ gpc = "ready"
  /\ gres = Pending
  /\ glog = <<>>
  /\ lreq = NoLogin
  /\ lpc = "ready"
  /\ lres = NoResponse
  /\ lcookies = {}
  /\ llog = <<>>
  /\ logins = 0
  /\ lprev = NoObservation
  /\ session = NoBrowser
  /\ logoutPc = "ready"
  /\ logoutRes = NoLogout
  /\ gems = InitGems
  /\ gemSeq = 1
  /\ uploads = {}
  /\ areq = [p \in ApiProcs |-> NoApiRequest]
  /\ ares = [p \in ApiProcs |-> NoApiResponse]
  /\ apc = [p \in ApiProcs |-> "ready"]
  /\ handled = 0
  /\ repositoryFactoryInstance = ModuleFactory
  /\ fcall = [p \in FactoryProcs |-> NoFactoryCall]
  /\ flog = <<>>
  /\ profileReq = [p \in ProfileProcs |-> NoProfileRequest]
  /\ profileRes = [p \in ProfileProcs |-> NoProfileResponse]
  /\ profiled = 0
  /\ payments = <<>>
  /\ audit = <<>>
  /\ preq = [p \in Procs |-> NoPayment]
  /\ ppc = [p \in Procs |-> "ready"]
  /\ pres = [p \in Procs |-> NoPayResponse]
  /\ started = 0

NextGate ==
  \/ GateArrive
  \/ GateIdleTimeout
  \/ GateCsrf
  \/ GateSession
  \/ GateProfile
  \/ GateRole
  \/ GatePath
  \/ GateReturn

SpecGate == Init /\ [][NextGate]_vars

NextLogin ==
  \/ LoginArrive
  \/ LoginSignIn
  \/ LoginUpdateLastLogin
  \/ LoginProfile
  \/ LoginActive
  \/ LoginRole
  \/ LoginTwoFactor
  \/ LoginReturn

SpecLogin == Init /\ [][NextLogin]_vars

NextSession ==
  \/ \E variant \in Variants : SessionOpen(variant)
  \/ \E d \in Delays : Tick(d)
  \/ logins = 0 /\ SessionLoginPost
  \/ SessionLoginSteps
  \/ SessionLoginDeliver
  \/ session.phase # "open" /\ SessionSend
  \/ SessionDeliver
  \/ SessionGateSteps

\* one browser session against the gate, with time passing
SpecSession == Init /\ [][NextSession]_vars

NextLoginSession ==
  \/ \E variant \in Variants : SessionOpen(variant)
  \/ session.phase = "open" /\ SessionLoginArrive
  \/ SessionLoginSteps
  \/ SessionLoginDeliver
  \/ \E d \in WaitDelays : SessionWait(d)
  \/ SessionSendFirst
  \/ SessionGateSteps
  \/ SessionDeliverFirst

\* a browser logs in through the login handler and sends its first request to the gate
SpecLoginSession == Init /\ [][NextLoginSession]_vars

NextLogoutSession ==
  \/ \E variant \in Variants : SessionOpen(variant)
  \/ \E d \in Delays : Tick(d)
  \/ logins = 0 /\ SessionLoginPost
  \/ SessionLoginSteps
  \/ SessionLoginDeliver
  \/ SessionLogout
  \/ SessionLogoutDeliver
  \/ SessionSendJar
  \/ SessionGateSteps
  \/ SessionDeliver

\* one browser that logs in, sends requests to the gate and logs out, with time passing
SpecLogoutSession == Init /\ [][NextLogoutSession]_vars

NextProfile ==
  \/ \E p \in ProfileProcs : ProfileSteps(p)
  \/ FactoryReset
  \/ \E withUser \in BOOLEAN : FactoryModuleLoad(withUser)

\* profile updates with up to two requests in flight, in a process whose
\* factory can be reset and built again
SpecProfile == Init /\ [][NextProfile]_vars

NextAuth ==
  \/ NextLogin
  \/ LogoutArrive
  \/ LogoutReturn

\* the login and the logout handler side by side
SpecAuth == Init /\ [][NextAuth]_vars

NextApi ==
  \E p \in ApiProcs :
    \/ ApiIdle /\ GemsArrive(p)
    \/ ApiIdle /\ ApiOtherArrive(p)
    \/ GemsSteps(p)
    \/ ApiOtherSteps(p)

\* the admin API handlers, one request after the other
SpecApi == Init /\ [][NextApi]_vars

NextGems ==
  \E p \in ApiProcs :
    \/ GemsArriveWithToken(p)
    \/ GemsRaceSteps(p)

\* the gems handlers with up to two requests in flight
SpecGems == Init /\ [][NextGems]_vars


NextLoginTwin ==
  \/ LoginArriveFirst
  \/ LoginObserve
  \/ \E u \in DOMAIN users : FlipTwoFactor(u)
  \/ LoginArriveAgain
  \/ LoginSignIn
  \/ LoginUpdateLastLogin
  \/ LoginProfile
  \/ LoginActive
  \/ LoginRole
  \/ LoginTwoFactor
  \/ LoginReturn

\* one login request, then the same request again after one profile's
\* two_factor_enabled flag was switched
SpecLoginTwin == Init /\ [][NextLoginTwin]_vars

NextLoginLastLogin ==
  \/ LoginArriveEither
  \/ LoginObserve
  \/ LoginArriveOther
  \/ LoginSignIn
  \/ LoginUpdateLastLogin
  \/ LoginProfile
  \/ LoginActive
  \/ LoginRole
  \/ LoginTwoFactor
  \/ LoginReturn

\* one login request, then the same request again with the other outcome of
\* the last-login update
SpecLoginLastLogin == Init /\ [][NextLoginLastLogin]_vars

NextFactory ==
  \/ \E withUser \in BOOLEAN : FactoryModuleLoad(withUser)
  \/ FactoryReset
  \/ \E p \in FactoryProcs :
       \/ \E handler \in FactoryHandlers : FactoryArrive(p, handler)
       \/ FactoryGet(p)
       \/ FactoryGetAgain(p)
       \/ FactoryReturn(p)

\* requests that look a profile up through the repository factory, with up to
\* two of them in flight, in a process whose factory can be reset and built again
SpecFactory == Init /\ [][NextFactory]_vars

PaySteps ==
  \E p \in Procs :
    \/ PayLookup(p)
    \/ PayCreate(p)
    \/ PayAudit(p)
    \/ PayReturn(p)

NextPayment ==
  \/ \E p \in Procs : PayArrive(p)
  \/ PaySteps

\* requests handled concurrently
SpecPayment == Init /\ [][NextPayment]_vars

NextPaymentSeq ==
  \/ \E p \in Procs : PayArriveAlone(p)
  \/ PaySteps

\* requests handled one after the other
SpecPaymentSeq == Init /\ [][NextPaymentSeq]_vars

NextPaymentInputs ==
  \/ PayArriveWide("r1")
  \/ PaySteps

\* one invocation at a time, over the boundary values of the request body
SpecPaymentInputs == Init /\ [][NextPaymentInputs]_vars

\* how many requests, to the gems and the payment handlers together, a run handles
MaxAuditRequests == 2

\* the run may take another request
AuditRoom == handled + started < MaxAuditRequests

NextAudit ==
  \/ AuditRoom /\ GemsArriveWithToken("a1")
  \/ AuditRoom /\ PayArrive("r1")
  \/ GemsRaceSteps("a1")
  \/ PaySteps

\* the handlers that write the audit log, with a gems and a payment request in flight together
SpecAudit == Init /\ [][NextAudit]_vars

----------------------------------------------------------------------------
(* Properties of the Access Gate *)

\* the request is for a path the gate guards: under /admin and not public
Guarded == startsWith(greq.pathname, <<"/admin">>) /\ greq.pathname \notin PUBLIC_ADMIN_PATHS

Finished == gpc = "done"
Allowed == Finished /\ gres.outcome = "next"

MutatingMethod == greq.method \in {"POST", "PUT", "PATCH", "DELETE", "delete"}

\* the request's lastActivity cookie is a timestamp and age is its distance
\* from the Date.now() of the idle check
HasTimestamp == greq.lastActivity.kind = "digits"
Age == greq.checked - greq.lastActivity.n

CsrfMatches ==
  /\ greq.csrfHeader.kind = "text"
  /\ greq.csrfHeader.text # <<>>
  /\ greq.csrfHeader = greq.csrfCookie

PrivilegedProfile ==
  /\ greq.provider.kind = "session"
  /\ greq.provider.uid \in DOMAIN users
  /\ toLowerCase(users[greq.provider.uid].role) \in {"superadmin", "admin", "moderator"}

\* C1: whenever the gate lets a request to a guarded administrative path
\* through, the request had a lastActivity within sessionTimeoutMs of now, a
\* session the provider accepts, an existing profile with a privileged role
\* and, for a mutating method, a non-empty x-csrf-token equal to the csrfToken
\* cookie.
C1_AllowedImpliesAllChecksPassed ==
  (Allowed /\ Guarded) =>
    /\ HasTimestamp /\ Age <= sessionTimeoutMs
    /\ PrivilegedProfile
    /\ (MutatingMethod => CsrfMatches)

\* C2: a guarded request whose lastActivity is older than sessionTimeoutMs is
\* answered with the login redirect carrying session_expired, and the idle
\* check is the only check that was evaluated for it.
C2_ExpiredDeniedFirst ==
  (Finished /\ Guarded /\ HasTimestamp /\ Age > sessionTimeoutMs) =>
    /\ gres = RedirectLogin("session_expired")
    /\ glog = <<"idle">>

\* an expired mutating request with no CSRF token and no session is denied session_expired
C2_Witness ==
  /\ Finished /\ Guarded /\ HasTimestamp /\ Age > sessionTimeoutMs
  /\ MutatingMethod /\ ~CsrfMatches /\ greq.provider.kind = "none"
  /\ gres.reason = "session_expired"

\* getSession() resolved without a session: session null, or an error result
LacksSession == greq.provider.kind \in {"none", "error"}

\* the request passes the idle-timeout and the CSRF check
PassesIdleAndCsrf ==
  /\ HasTimestamp /\ Age <= sessionTimeoutMs
  /\ (MutatingMethod => CsrfMatches)

\* C3 as stated: every guarded request without a provider session, of any
\* method, is answered with the login redirect carrying unauthenticated.
C3_NoSessionUnauthenticated_Stated ==
  (Finished /\ Guarded /\ LacksSession) => gres = RedirectLogin("unauthenticated")

\* C3 amended: every guarded request without a provider session, of any
\* method, that passes the idle-timeout and CSRF checks is answered with the
\* login redirect carrying unauthenticated.
C3_NoSessionUnauthenticated ==
  (Finished /\ Guarded /\ LacksSession /\ PassesIdleAndCsrf) =>
    gres = RedirectLogin("unauthenticated")

\* a DELETE with a matching token whose session lookup reported an error
C3_Witness ==
  /\ Finished /\ Guarded /\ PassesIdleAndCsrf
  /\ greq.provider.kind = "error" /\ toUpperCase(greq.method) = "DELETE"
  /\ gres.reason = "unauthenticated"

\* the token pair fails the double-submit rule: different, or either one absent or empty
CsrfMismatch == ~CsrfMatches

\* C4 as stated: every guarded mutating request whose token pair fails the
\* double-submit rule is redirected to the forbidden page, whatever the role.
C4_CsrfMismatchForbidden_Stated ==
  (Finished /\ Guarded /\ MutatingMethod /\ CsrfMismatch) => gres = RedirectForbidden

\* C4 amended: every guarded mutating request with a lastActivity within the
\* idle timeout whose token pair fails the double-submit rule is redirected to
\* the forbidden page (no reason), whatever the session and role.
C4_CsrfMismatchForbidden ==
  (Finished /\ Guarded /\ MutatingMethod /\ CsrfMismatch
     /\ HasTimestamp /\ Age <= sessionTimeoutMs) =>
    gres = RedirectForbidden

\* a superadmin's POST with both tokens empty is redirected to /403
C4_Witness ==
  /\ Finished /\ Guarded /\ greq.method = "POST"
  /\ greq.csrfHeader = Text(<<>>) /\ greq.csrfCookie = Text(<<>>)
  /\ PrivilegedProfile /\ users[greq.provider.uid].role = "superadmin"
  /\ gres = RedirectForbidden

\* the checks of one request in their fixed order
CheckOrder ==
  IF gpc = "ready" THEN <<>>
  ELSE IF MutatingMethod
       THEN <<"idle", "csrf", "session", "profile", "role", "path">>
       ELSE <<"idle", "session", "profile", "role", "path">>

\* the responses a failure of each check produces
FailureOf(check) ==
  CASE check = "idle" -> {RedirectLogin("session_expired")}
    [] check = "csrf" -> {RedirectForbidden}
    [] check = "session" -> {RedirectLogin("unauthenticated"), Thrown}
    [] check = "profile" -> {RedirectLogin("user_not_found")}
    [] check = "role" -> {RedirectForbidden}
    [] check = "path" -> {RedirectForbidden}

\* the request fails the named check
Fails(check) ==
  CASE check = "idle" -> Not(greq.lastActivity) \/ (HasTimestamp /\ Age > sessionTimeoutMs)
    [] check = "csrf" -> CsrfMismatch
    [] check = "session" -> greq.provider.kind # "session"
    [] check = "profile" -> greq.provider.uid \notin DOMAIN users
    [] check = "role" -> ~PrivilegedProfile
    [] check = "path" -> FALSE

C8_Ordered ==
  /\ Len(glog) <= Len(CheckOrder)
  /\ glog = SubSeq(CheckOrder, 1, Len(glog))
  /\ (Finished /\ gres.outcome # "next") =>
       (glog # <<>> /\ gres \in FailureOf(glog[Len(glog)]))
  /\ (~Finished /\ gpc # "ready") => gres = Pending
  /\ \A i \in 1..(Len(glog) - 1) : ~Fails(glog[i])

\* C8: within one request the checks are evaluated in the order idle,
\* CSRF (mutating methods only), session, profile, role, path; a denial is the
\* outcome of the last check evaluated, and once the response is decided no
\* further check is evaluated.
C8_SequentialShortCircuit ==
  /\ []C8_Ordered
  /\ [][Finished => (gpc' = "ready" /\ glog' = <<>>)]_vars

\* a PUT that passed idle, CSRF and session and failed the profile lookup
C8_Witness ==
  /\ Finished /\ greq.method = "PUT"
  /\ glog = <<"idle", "csrf", "session", "profile">>
  /\ gres = RedirectLogin("user_not_found")

\* the role check was evaluated for the finished request
RoleChecked ==
  /\ Finished /\ Guarded
  /\ \E i \in 1..Len(glog) : glog[i] = "role"

\* the request was denied by the role check, with the redirect to the forbidden page
DeniedByRole == glog[Len(glog)] = "role" /\ gres = RedirectForbidden

\* the role of the profile the gate looked up
GateRoleOf == users[greq.provider.uid].role

\* C13: the gate treats a profile role as privileged exactly when, compared
\* case-insensitively, it is one of superadmin, admin, moderator; every other
\* role is denied by the role check with a redirect to the forbidden page.
C13_RolePrivilegedCaseInsensitive ==
  RoleChecked =>
    (DeniedByRole <=> toLowerCase(GateRoleOf) \notin {"superadmin", "admin", "moderator"})

\* the request is for a path under /admin/settings
SettingsPath == startsWith(greq.pathname, <<"/admin", "/settings">>)

\* the request passed every check before the path authorization
PathChecked == Len(glog) > 0 /\ glog[Len(glog)] = "path"

\* C14: a request to a path under /admin/settings is allowed only when the
\* profile role is superadmin; a user with role admin or moderator who passes
\* every earlier check is redirected to the forbidden page and lastActivity
\* is not refreshed.
C14_SettingsSuperadminOnly ==
  (Finished /\ SettingsPath) =>
    /\ Allowed =>
         /\ greq.provider.kind = "session"
         /\ greq.provider.uid \in DOMAIN users
         /\ toLowerCase(GateRoleOf) = "superadmin"
    /\ (PathChecked /\ toLowerCase(GateRoleOf) \in {"admin", "moderator"}) =>
         (gres = RedirectForbidden /\ gres.lastActivity = Undefined)

\* the session has begun: a login or an allowed request has set lastActivity
SessionActive == session.lastAllowed # 0

\* the time between the lastActivity of the session's login or last allowed
\* request and the arrival of this request
ArrivedSinceLastAllowed == greq.at - session.lastAllowed

\* the time between the lastActivity of the session's login or last allowed
\* request and the idle check of this request
SinceLastAllowed == greq.checked - session.lastAllowed

\* the lastActivity the response sets is a clock value read between the
\* request's idle check and now
WrittenWhileHandled ==
  /\ ~Number(gres.lastActivity).nan
  /\ Number(gres.lastActivity).v \in greq.checked .. now

\* C15 as stated, with the arrival of a request as its time: every guarded
\* request the gate allows sets lastActivity to the time of that request; a
\* request of a session arriving at most sessionTimeoutMs after the session's
\* last allowed request (or its login) is never denied with session_expired,
\* and one arriving more than sessionTimeoutMs after it is denied with
\* session_expired.
C15_SlidingIdleTimeout_Stated ==
  (Finished /\ Guarded) =>
    /\ Allowed => gres.lastActivity = Digits(greq.at)
    /\ SessionActive =>
         /\ ArrivedSinceLastAllowed <= sessionTimeoutMs => gres.reason # "session_expired"
         /\ ArrivedSinceLastAllowed > sessionTimeoutMs =>
              gres = RedirectLogin("session_expired")

\* C15: every guarded request the gate allows sets lastActivity to a clock
\* value read while the request is handled, not before its idle check; a
\* request of a session whose idle check is made at most sessionTimeoutMs
\* after the lastActivity of the session's last allowed request (or its
\* login) is never denied with session_expired, and one whose idle check is
\* made more than sessionTimeoutMs after it is denied with session_expired.
C15_SlidingIdleTimeout ==
  (Finished /\ Guarded) =>
    /\ Allowed => WrittenWhileHandled
    /\ SessionActive =>
         /\ SinceLastAllowed <= sessionTimeoutMs => gres.reason # "session_expired"
         /\ SinceLastAllowed > sessionTimeoutMs => gres = RedirectLogin("session_expired")

\* a request of a session that the gate of src/middleware.ts had refreshed
\* arrives exactly sessionTimeoutMs after the refresh, the idle check is made
\* one millisecond later and the request is denied
C15_Witness ==
  /\ Finished /\ Guarded
  /\ greq.variant = "A" /\ session.expires # 0
  /\ greq.lastActivity = Digits(session.lastAllowed)
  /\ ArrivedSinceLastAllowed = sessionTimeoutMs
  /\ SinceLastAllowed = sessionTimeoutMs + 1
  /\ gres = RedirectLogin("session_expired")

\* the gate is handling, or has answered, a request for the login page
LoginPageRequested == gpc # "ready" /\ greq.pathname = <<"/admin", "/login">>

\* C16: a request to the public administrative path /admin/login is let
\* through for every combination of method, cookies and headers: it is
\* answered at once, none of the idle, CSRF, session, profile and role checks
\* runs, and no cookie is written.
C16_LoginPageBypassesChecks ==
  LoginPageRequested =>
    /\ Finished
    /\ glog = <<>>
    /\ gres = PassThrough(Undefined)

\* a DELETE to /admin/login with no cookie, no token and no session is let through
C16_Witness ==
  /\ LoginPageRequested /\ Allowed
  /\ greq.method = "DELETE"
  /\ greq.lastActivity = Undefined
  /\ greq.csrfHeader = Undefined /\ greq.csrfCookie = Undefined
  /\ greq.provider = NoSession

\* the response sets the lastActivity cookie
WritesCookie == gres.lastActivity # Undefined

\* the request was denied by the named check
DeniedAt(check) ==
  /\ Finished
  /\ gres.outcome # "next"
  /\ glog # <<>>
  /\ glog[Len(glog)] = check

\* the gate initialized a missing lastActivity cookie
InitializedMissing ==
  greq.variant = "B" /\ Not(greq.lastActivity) /\ glog = <<"idle">>

\* the gate allowed the request after the last check
AllowedAfterChecks ==
  gres.outcome = "next" /\ glog # <<>> /\ glog[Len(glog)] = "path"

\* C27: the gate writes a cookie only when it initializes a missing
\* lastActivity or when it allows the request; a denial for CSRF mismatch,
\* insufficient role or settings path is a redirect that writes no cookie, so
\* lastActivity stays as it was.
C27_CookieWritesOnlyOnInitOrSuccess ==
  /\ (Finished /\ WritesCookie) => (InitializedMissing \/ AllowedAfterChecks)
  /\ \A check \in {"csrf", "role", "path"} :
       DeniedAt(check) => (gres.outcome = "redirect" /\ ~WritesCookie)

\* a request with a fresh lastActivity was denied for its role, by a redirect without cookie
C27_Witness ==
  /\ DeniedAt("role")
  /\ HasTimestamp
  /\ gres = RedirectForbidden
  /\ ~WritesCookie

\* how many times the gate has called supabase.auth.getSession() for this request
ProviderCalls == Cardinality({i \in 1..Len(glog) : glog[i] = "session"})

\* the provider returned an error, or threw, when the gate asked for the session
ProviderFailed ==
  greq.provider.kind \in {"error", "throw"} /\ ProviderCalls > 0

\* C28: when the identity provider returns an error or throws while the gate
\* resolves the session, the gate treats it as no session: it redirects to
\* login with reason unauthenticated, having called the provider exactly
\* once, in both middleware variants.
C28_ProviderErrorIsNoSession ==
  (Finished /\ ProviderFailed) =>
    (gres = RedirectLogin("unauthenticated") /\ ProviderCalls = 1)

\* the idle-timeout check has been evaluated and did not end the request
PassedIdle == glog # <<>> /\ ~(Finished /\ glog = <<"idle">>)

\* C29: a present lastActivity cookie passes the idle-timeout check exactly
\* when now - lastActivity <= sessionTimeoutMs: an elapsed time equal to the
\* timeout passes, one millisecond more is denied, and a value that is not a
\* number does not pass.
C29_IdleBoundaryInclusive ==
  (glog # <<>> /\ ~Not(greq.lastActivity)) =>
    (PassedIdle <=> (HasTimestamp /\ Age <= sessionTimeoutMs))

----------------------------------------------------------------------------
(* Properties of the login handler *)

LoginFinished == lpc = "done"

\* the request carried an email and a password and the provider accepted them
CredentialsAccepted ==
  /\ ~Not(lreq.email) /\ ~Not(lreq.password)
  /\ lreq.signIn.kind = "session"

\* the profile lookup returned the signed-in user's profile
ProfileFound ==
  /\ CredentialsAccepted
  /\ lreq.fault # "findById"
  /\ lreq.signIn.uid \in DOMAIN users

LoginProfileOf == users[lreq.signIn.uid]

\* C9: a login with credentials the provider accepts, for a user whose profile
\* role is outside {superadmin, admin, moderator}, is answered 403 and the
\* response sets no cookie.
C9_UnprivilegedLogin403NoCookies ==
  (LoginFinished /\ ProfileFound
     /\ LoginProfileOf.role \notin {"superadmin", "admin", "moderator"}) =>
    (lres.status = 403 /\ lres.cookies = {})

\* an active customer with valid credentials is refused for the role, while
\* the provider's session cookies were pending
C9_Witness ==
  /\ LoginFinished /\ ProfileFound
  /\ LoginProfileOf.role = "customer" /\ LoginProfileOf.is_active
  /\ lres = JsonError(403, "Access denied. Insufficient privileges.")
  /\ lcookies # {}

\* C10: a login that passes the credential, profile, active and role checks
\* for a user with two_factor_enabled, and that supplies no two-factor code,
\* is answered 200 with requires2FA true and sets no cookie.
C10_TwoFactorChallengeNoCookies ==
  (LoginFinished /\ ProfileFound
     /\ LoginProfileOf.is_active /\ isAdmin(LoginProfileOf.role)
     /\ LoginProfileOf.two_factor_enabled
     /\ Not(lreq.twoFactorToken)) =>
    (lres.status = 200 /\ lres.requires2FA /\ ~lres.success /\ lres.cookies = {})

\* an admin with 2FA enabled logs in with an empty code
C10_Witness ==
  /\ LoginFinished /\ ProfileFound
  /\ LoginProfileOf.role = "admin" /\ LoginProfileOf.two_factor_enabled
  /\ lreq.twoFactorToken = Text(<<>>)
  /\ lres = Requires2FA
  /\ lcookies # {}

\* the request passed the credential, profile, active and role validation
PassedValidation ==
  /\ ProfileFound
  /\ LoginProfileOf.is_active
  /\ isAdmin(LoginProfileOf.role)

\* the request now answered is the remembered one, sent again after the flag was switched
SecondOfPair == LoginFinished /\ lprev.phase = "flipped" /\ logins = 2

\* C11: of two login requests that differ only in a profile's
\* two_factor_enabled flag, when the request does not pass the credential,
\* profile, active and role validation, the two responses (status, body and
\* cookies) are identical.
C11_TwoFactorFlagHiddenUntilValidated ==
  (SecondOfPair /\ ~PassedValidation) => lres = lprev.res

\* an inactive admin whose own flag was switched is refused both times with
\* the same 403, having sent no two-factor code
C11_Witness ==
  /\ SecondOfPair /\ ProfileFound
  /\ lprev.flipped = lreq.signIn.uid
  /\ LoginProfileOf.role = "admin" /\ ~LoginProfileOf.is_active
  /\ LoginProfileOf.two_factor_enabled
  /\ lreq.twoFactorToken = Undefined
  /\ lres = JsonError(403, "Account is deactivated")
  /\ lprev.res = lres

\* the steps of one login request in their fixed order
LoginStepOrder ==
  <<"validate", "signIn", "lastLogin", "profile", "active", "role", "twoFactor">>

\* no call of the request throws: the provider answers and the profile lookup works
NoUpstreamFailure == lreq.signIn.kind # "throw" /\ lreq.fault # "findById"

\* the first step the request fails, "none" when it reaches the two-factor step
FirstFailure ==
  IF Not(lreq.email) \/ Not(lreq.password) THEN "validate"
  ELSE IF SignInFailed(lreq.signIn) THEN "signIn"
  ELSE IF lreq.signIn.uid \notin DOMAIN users THEN "profile"
  ELSE IF ~LoginProfileOf.is_active THEN "active"
  ELSE IF LoginProfileOf.role \notin {"superadmin", "admin", "moderator"} THEN "role"
  ELSE "none"

\* the response each failing step gives
LoginFailure(step) ==
  CASE step = "validate" -> JsonError(400, "Email and password are required")
    [] step = "signIn" -> JsonError(401, MessageOr(lreq.signIn.message,
                                                   "Authentication failed"))
    [] step = "profile" -> JsonError(404, "User profile not found")
    [] step = "active" -> JsonError(403, "Account is deactivated")
    [] step = "role" -> JsonError(403, "Access denied. Insufficient privileges.")

C12_Ordered ==
  /\ Len(llog) <= Len(LoginStepOrder)
  /\ llog = SubSeq(LoginStepOrder, 1, Len(llog))
  /\ (LoginFinished /\ NoUpstreamFailure) =>
       /\ llog # <<>>
       /\ IF FirstFailure = "none"
          THEN llog = LoginStepOrder
          ELSE /\ llog[Len(llog)] = FirstFailure
               /\ lres = LoginFailure(FirstFailure)

\* C12: the login handler decides in the order presence of email and
\* password (400, before any provider call), provider rejection (401), profile
\* absent (404), is_active false (403), role not privileged (403), then the
\* two-factor step; the response is that of the first failing step and no
\* later step runs.
C12_LoginDecisionOrder ==
  /\ []C12_Ordered
  /\ [][LoginFinished => (lpc' = "ready" /\ llog' = <<>>)]_vars

\* an inactive customer with accepted credentials is refused as deactivated,
\* and the role step never ran
C12_Witness ==
  /\ LoginFinished /\ NoUpstreamFailure
  /\ CredentialsAccepted /\ lreq.signIn.uid \in DOMAIN users
  /\ LoginProfileOf.role = "customer" /\ ~LoginProfileOf.is_active
  /\ llog = <<"validate", "signIn", "lastLogin", "profile", "active">>
  /\ lres = JsonError(403, "Account is deactivated")

\* the second request of a pair that differs only in the outcome of updateLastLogin is answered
SecondOfLastLoginPair ==
  /\ lpc = "done"
  /\ logins = 2
  /\ lprev.phase = "seen"
  /\ lreq = [lprev.req EXCEPT !.fault = OtherLastLoginOutcome(@)]

\* C26: the login response (status, body and cookies) is the same whether
\* the last-login update succeeds or fails; its failure never turns a login
\* that would succeed into an error.
C26_LastLoginFailureInvisible ==
  SecondOfLastLoginPair => lres = lprev.res

\* a login succeeded while updateLastLogin failed, as it had when the update succeeded
C26_Witness ==
  /\ SecondOfLastLoginPair
  /\ lreq.fault = "updateLastLogin"
  /\ lres.success
  /\ lres.status = 200
  /\ findById(users, lreq.signIn.uid).last_login = now

----------------------------------------------------------------------------
(* Properties of the logout handler and of the audit trail of login and logout *)

LogoutFinished == logoutPc = "done"

\* the cookies that make up the Session
SessionCookieNames == {"sb-access-token", "sb-refresh-token", "lastActivity", "csrfToken"}

\* the response sets the named cookie to the empty value with immediate expiry
Clears(res, name) ==
  \E c \in res.cookies : c.name = name /\ c.value = Text(<<>>) /\ c.maxAge = 0

\* C17: a successful logout clears every cookie that makes up the Session
\* (the provider's access and refresh token cookies, lastActivity and
\* csrfToken) by setting it to the empty value with immediate expiry; when the
\* provider reports a sign-out error the answer is 400 and no cookie is
\* cleared.
C17_LogoutClearsSessionCookies ==
  LogoutFinished =>
    /\ logoutRes.signOut = "ok" =>
         (logoutRes.status = 200 /\ \A name \in SessionCookieNames : Clears(logoutRes, name))
    /\ logoutRes.signOut = "error" =>
         (logoutRes.status = 400 /\ logoutRes.cookies = {})

\* the audit log holds an entry with the action
Audited(action) == \E i \in 1..Len(audit) : audit[i].action = action

\* C20: every successful admin login and every successful logout appends an
\* audit log entry recording the action: after a login answered with success
\* the log holds a LOGIN entry, after a logout answered with success a LOGOUT
\* entry.
C20_LoginLogoutAudited ==
  /\ (LoginFinished /\ lres.success) => Audited("LOGIN")
  /\ (LogoutFinished /\ logoutRes.success) => Audited("LOGOUT")

----------------------------------------------------------------------------
(* Properties of the admin API handlers *)

\* invocation p of an admin API handler takes this step
ApiActs(p) == apc'[p] # apc[p]

\* invocation p is handling a request after this step
ApiBusy(p) == ApiActs(p) /\ apc'[p] # "ready"

\* invocation p returns its response in this step
ApiAnswers(p) == apc[p] # "done" /\ apc'[p] = "done"

\* this step changes the gems table, the upload directory or the audit log
Mutated == gems' # gems \/ uploads' # uploads \/ audit' # audit

\* the request is a POST, PUT or DELETE to /api/admin/gems or a POST to /api/admin/upload
MutatingApi(req) == req.handler \in {"gems.POST", "gems.PUT", "gems.DELETE", "upload.POST"}

\* the request carries an x-csrf-token header equal to its csrfToken cookie
ApiCsrfOk(req) == ~Not(req.csrfHeader) /\ req.csrfHeader = req.csrfCookie

\* C18: a POST, PUT or DELETE to /api/admin/gems or a POST to
\* /api/admin/upload changes state only if it carries an x-csrf-token header
\* equal to the csrfToken cookie.
C18_MutatingApiCsrfProtected ==
  [][\A p \in ApiProcs :
       (ApiBusy(p) /\ MutatingApi(areq'[p]) /\ Mutated) => ApiCsrfOk(areq'[p])]_vars

\* the request comes without an authenticated user
Unauthenticated(req) == req.authUser = Anonymous

\* C19 as stated: every /api/admin handler, requested without an
\* authenticated user, answers 401 or 403, changes no repository and writes no
\* audit entry.
C19_UnauthenticatedApiRefused_Stated ==
  [][\A p \in ApiProcs :
       (ApiBusy(p) /\ Unauthenticated(areq'[p])) =>
         /\ ApiAnswers(p) => ares'[p].status \in {401, 403}
         /\ ~Mutated]_vars

\* C19 amended: every /api/admin handler, requested without an authenticated
\* user, answers 401 or 403, or 429 when it is the gems POST and the rate
\* limit is exhausted, and changes no repository and writes no audit entry.
C19_UnauthenticatedApiRefused ==
  [][\A p \in ApiProcs :
       (ApiBusy(p) /\ Unauthenticated(areq'[p])) =>
         /\ ApiAnswers(p) =>
              IF areq'[p].handler = "gems.POST" /\ areq'[p].rateLimited
              THEN ares'[p].status = 429
              ELSE ares'[p].status \in {401, 403}
         /\ ~Mutated]_vars

\* a DELETE without a user is answered 401; the stored gem is still there
\* and nothing was audited
C19_Witness ==
  \E p \in ApiProcs :
    /\ apc[p] = "done"
    /\ areq[p].handler = "gems.DELETE" /\ Unauthenticated(areq[p])
    /\ ares[p] = ApiResponse(401, "Unauthorized")
    /\ 1 \in DOMAIN gems
    /\ audit = <<>>

----------------------------------------------------------------------------
(* Properties of the Payment Intent Builder *)

\* invocation p was given a request that reaches the repository and no call of it fails
Handled(p) ==
  /\ ppc[p] = "done"
  /\ ~preq[p].rateLimited
  /\ validateInput(preq[p]) = <<>>
  /\ validatePaymentData(preq[p]) = <<>>
  /\ preq[p].fault = "none"

\* p and q are two finished requests for the same fresh order_id
SameOrderPair(p, q) ==
  /\ p # q
  /\ Handled(p) /\ Handled(q)
  /\ preq[p].order_id = preq[q].order_id
  /\ \A i \in findByOrderId(payments, preq[p].order_id) :
       payments[i].id \in {pres[p].payment_id, pres[q].payment_id}

\* C5: of two payment-intent requests for the same order_id, whatever the
\* interleaving of their lookups and creations, exactly one succeeds with 201
\* and the other receives 409.
C5_ExactlyOneSucceeds ==
  \A p, q \in Procs :
    SameOrderPair(p, q) => {pres[p].status, pres[q].status} = {201, 409}

\* C6: in every reachable state of the payment store at most one
\* PaymentRecord exists for each order_id.
C6_AtMostOneRecordPerOrder ==
  \A i, j \in 1..Len(payments) :
    payments[i].order_id = payments[j].order_id => i = j

\* invocation p takes its existence-lookup step while a record for its order_id exists
LooksUpExisting(p) ==
  /\ ppc[p] = "lookup"
  /\ ppc'[p] # "lookup"
  /\ preq[p].fault # "findByOrderId"
  /\ findByOrderId(payments, preq[p].order_id) # {}

\* C7: with requests handled one after the other, the table never holds two
\* records for one order_id, and a request whose order_id already has a
\* record is answered 409, creates nothing, writes no audit entry and leaves
\* the existing records unchanged.
C7_SecondAttemptConflicts ==
  /\ []C6_AtMostOneRecordPerOrder
  /\ [][\A p \in Procs :
          LooksUpExisting(p) =>
            /\ pres'[p].status = 409
            /\ ppc'[p] = "done"
            /\ payments' = payments
            /\ audit' = audit]_vars

\* a guest's request created the record; a signed-in user's request for the
\* same order_id was answered 409 and nothing was audited
C7_Witness ==
  \E p, q \in Procs :
    /\ p # q /\ Handled(p) /\ Handled(q)
    /\ preq[p].order_id = preq[q].order_id
    /\ preq[p].authUser = NoUser /\ preq[q].authUser # NoUser
    /\ pres[p].status = 200 /\ pres[q].status = 409
    /\ Cardinality(findByOrderId(payments, preq[p].order_id)) = 1
    /\ audit = <<>>

\* in this step invocation p receives its request and runs the validation passes
Received(p) == ppc[p] = "ready" /\ ppc'[p] # "ready"

\* the messages of every rule the body violates, of both passes
AllViolations(body) == validateInput(body) \o validatePaymentData(body)

\* the response lists each of the messages
Lists(res, messages) ==
  \A i \in 1..Len(messages) : \E j \in 1..Len(res.violations) : res.violations[j] = messages[i]

\* C22: a payload that fails validation is answered 400 with every violated
\* rule enumerated, those of the generic pass and those of the
\* payment-specific pass in one response, and nothing is persisted.
C22_ValidationEnumeratesAllRules ==
  [][\A p \in Procs :
       (Received(p) /\ ~preq'[p].rateLimited /\ AllViolations(preq'[p]) # <<>>) =>
         /\ pres'[p].status = 400
         /\ Lists(pres'[p], AllViolations(preq'[p]))
         /\ payments' = payments
         /\ audit' = audit]_vars

\* the messages of the amount rule
AmountMessages == {"amount must be at least 1", "amount must be at most 10000000"}

\* the response is a 400 that cites the amount rule
CitesAmountRule(res) ==
  res.status = 400 /\ \E j \in 1..Len(res.violations) : res.violations[j] \in AmountMessages

\* 0 < amount <= 10,000,000
AmountInRange(amount) == 0 < amount /\ amount <= AMOUNT_MAX * Hundredths

\* C23: the amount rule accepts an amount exactly when 0 < amount <=
\* 10,000,000: an amount of 10,000,001 or at most 0 is answered 400 citing
\* the amount rule, and every amount in the interval, amounts below 1
\* included, passes the amount rule.
C23_AmountAcceptedInOpenClosedInterval ==
  [][\A p \in Procs :
       (Received(p) /\ ~preq'[p].rateLimited) =>
         (CitesAmountRule(pres'[p]) <=> ~AmountInRange(preq'[p].amount))]_vars

\* in this step invocation p, having persisted its PaymentRecord, finishes
FinishesAfterCreate(p) == ppc[p] = "audit" /\ ppc'[p] = "done"

\* the PaymentRecord invocation p has persisted
PersistedBy(p) == payments[pres[p].payment_id]

\* this step appends the PAYMENT_INITIATED entry of p's user and p's new payment
WritesPaymentEntry(p) ==
  /\ Len(audit') = Len(audit) + 1
  /\ SubSeq(audit', 1, Len(audit)) = audit
  /\ audit'[Len(audit')].action = "PAYMENT_INITIATED"
  /\ audit'[Len(audit')].user_id = preq[p].authUser
  /\ audit'[Len(audit')].resource_id = PersistedBy(p).id

\* C24: a PAYMENT_INITIATED entry is written exactly when a PaymentRecord has
\* been persisted by a request of an authenticated user, with that user's id
\* and the new payment's id; a guest checkout persists a pending record
\* without user_id and writes no entry.
C24_PaymentAuditedIffAuthenticated ==
  [][/\ \A p \in Procs :
          FinishesAfterCreate(p) =>
            /\ PersistedBy(p).status = "pending"
            /\ PersistedBy(p).user_id = preq[p].authUser
            /\ IF preq[p].authUser # NoUser THEN WritesPaymentEntry(p) ELSE audit' = audit
     /\ audit' # audit => \E p \in Procs : FinishesAfterCreate(p) /\ preq[p].authUser # NoUser
    ]_vars

----------------------------------------------------------------------------
(* Properties of the audit log *)

\* the audit log after this step is the log before it with one entry added
AuditAppended ==
  /\ Len(audit') = Len(audit) + 1
  /\ SubSeq(audit', 1, Len(audit)) = audit

\* invocation p of a gems handler performs, in this step, the mutation its
\* request asks for
GemMutationDone(p) ==
  CASE areq'[p].handler = "gems.POST" -> areq'[p].id \in DOMAIN gems' \ DOMAIN gems
    [] areq'[p].handler = "gems.PUT" ->
         areq'[p].id \in DOMAIN gems \cap DOMAIN gems' /\ gems' = UpdateGem(gems, areq[p])
    [] areq'[p].handler = "gems.DELETE" -> areq'[p].id \in DOMAIN gems \ DOMAIN gems'
    [] OTHER -> FALSE

\* a gems handler comes to its audit call only by performing its mutation
AuditCallAfterMutation ==
  \A p \in ApiProcs : (apc[p] # "audit" /\ apc'[p] = "audit") => GemMutationDone(p)

\* the entry records a mutation that was performed by an authenticated user:
\* a stored payment of that user, or a gem mutation by a user who passed the role check
AuditJustified(e) ==
  IF e.action = "PAYMENT_INITIATED"
  THEN /\ e.user_id # NoUser
       /\ \E i \in 1..Len(payments) :
            payments[i].id = e.resource_id /\ payments[i].user_id = e.user_id
       /\ \E p \in Procs : ppc[p] = "audit" /\ preq[p].authUser = e.user_id
  ELSE /\ e.user_id # Anonymous
       /\ findById(users, e.user_id).role \in WRITE_ROLES
       /\ \E p \in ApiProcs :
            /\ apc[p] = "audit" /\ ApiAnswers(p)
            /\ areq[p].authUser = e.user_id
            /\ e.action = AuditAction(areq[p].handler)
            /\ e.resource_id = areq[p].id

\* C21: the audit log is append-only; across requests to the gems and the
\* payment handlers an entry once written is never changed or removed, and an
\* entry is added only by a handler after the mutation it records was
\* performed by an authenticated user.
C21_AuditAppendOnly ==
  [][/\ audit' # audit => (AuditAppended /\ AuditJustified(audit'[Len(audit')]))
     /\ AuditCallAfterMutation]_vars

\* a gem was created and audited, then a payment was initiated and audited
C21_Witness ==
  /\ Len(audit) = 2
  /\ audit[1].action = "CREATE_GEM"
  /\ audit[2].action = "PAYMENT_INITIATED"

----------------------------------------------------------------------------
(* Properties of the answers to upstream failures *)

\* the fixed messages of the handlers' 5xx answers
GenericMessages ==
  {"Internal server error", "Failed to create payment", "Failed to create payment record",
   "Failed to create gem", "Failed to update gem", "Failed to delete gem"}

\* a 5xx response whose body is one of the fixed messages
Generic5xx(res) == res.status >= 500 /\ res.error \in GenericMessages

\* in this step the login handler's call of the provider or of the profile store fails
LoginFailsHere ==
  \/ lpc = "signIn" /\ lreq.signIn.kind = "throw"
  \/ lpc = "profile" /\ lreq.fault = "findById"

\* in this step the repository call invocation p of the payment handler makes fails
PayFailsHere(p) ==
  \/ ppc[p] = "lookup" /\ preq[p].fault = "findByOrderId"
  \/ ppc[p] = "create" /\ preq[p].fault \in {"create-throw", "create-null"}
  \/ ppc[p] = "audit" /\ preq[p].fault = "audit" /\ preq[p].authUser # NoUser

\* C25: when the identity provider or the persistence layer fails during
\* login, payment-intent creation or a gem mutation, the client receives a
\* 5xx response whose body is a fixed generic message that does not depend
\* on the upstream error's message.
C25_UpstreamFailureGeneric5xx ==
  [][/\ (LoginFailsHere /\ lpc' # lpc) => Generic5xx(lres')
     /\ \A p \in Procs : (PayFailsHere(p) /\ ppc'[p] # ppc[p]) => Generic5xx(pres'[p])
     /\ \A p \in ApiProcs :
          (ApiAnswers(p) /\ areq'[p].fault # NoFault) => Generic5xx(ares'[p])]_vars

----------------------------------------------------------------------------
(* Properties of the repository factory *)

\* C30: the reused repository handles carry no per-request state: after any
\* sequence of earlier requests, the profile lookup of a request, by the
\* gate that builds a cookie-bound client per request and by the login
\* handler, goes through the client built for that same request, never
\* through the client of an earlier request.
C30_LookupUsesOwnClient ==
  \A i \in 1..Len(flog) : flog[i].client = ClientOf(flog[i].request)

----------------------------------------------------------------------------
(* Properties that relate the gate and the admin API handlers *)

\* the read endpoints: GET /api/admin/gems, GET /api/admin/stats, POST /api/admin/upload
ReadHandlers == {"gems.GET", "stats.GET", "statsHelper.GET", "upload.POST"}

\* the gate of this variant accepts the role as privileged for /admin pages
GateAccepts(variant, role) == role \in ADMIN_ROLES(variant)

\* a read endpoint has answered a user the provider authenticated and the store knows
ReadAnswered(p) ==
  /\ apc[p] = "done"
  /\ areq[p].handler \in ReadHandlers
  /\ areq[p].authUser # Anonymous
  /\ ~areq[p].authError
  /\ findById(users, areq[p].authUser) # NoProfile

\* C31: the gate and the admin API handlers classify every stored role value
\* identically: a read endpoint answers an authenticated user 403 exactly
\* when the gate, in either variant, rejects the role of that user's profile.
C31_GateAndApiClassifyRolesAlike ==
  \A p \in ApiProcs :
    ReadAnswered(p) =>
      \A variant \in Variants :
        (ares[p].status = 403) <=>
          ~GateAccepts(variant, findById(users, areq[p].authUser).role)

----------------------------------------------------------------------------
(* Role-based access on the gem API *)

GemHandlers == {"gems.GET", "gems.POST", "gems.PUT", "gems.DELETE"}
GemWriteHandlers == {"gems.POST", "gems.PUT", "gems.DELETE"}

\* the stored role of the user the request comes from; "" without a profile
ApiRoleOf(req) == findById(users, req.authUser).role

\* the request comes from an authenticated user whose role is superadmin or admin
MayWriteGems(req) ==
  req.authUser # Anonymous /\ ApiRoleOf(req) \in {"superadmin", "admin"}

\* the request is a gem write by an authenticated user of another role
WriteByOtherRole(req) ==
  /\ req.handler \in GemWriteHandlers
  /\ req.authUser # Anonymous
  /\ ApiRoleOf(req) \notin {"superadmin", "admin"}

\* this step leaves the gems table and the audit log as they were
GemsUntouched == gems' = gems /\ audit' = audit

\* the store changes only for superadmin and admin, and a moderator reads with 200
OnlyAdminsWriteModeratorsRead(p) ==
  /\ gems' # gems => MayWriteGems(areq'[p])
  /\ (ApiAnswers(p) /\ areq'[p].handler = "gems.GET" /\ ApiRoleOf(areq'[p]) = "moderator") =>
       ares'[p].status = 200

\* C32 as stated: the gem store is changed only by requests of authenticated
\* users whose role is superadmin or admin; a moderator reads gems with 200,
\* and every POST, PUT or DELETE by a moderator or another role is answered
\* 403 and leaves the gem store and the audit log unchanged.
C32_GemRoleAccess_Stated ==
  [][\A p \in ApiProcs :
       (ApiBusy(p) /\ areq'[p].handler \in GemHandlers) =>
         /\ OnlyAdminsWriteModeratorsRead(p)
         /\ WriteByOtherRole(areq'[p]) =>
              /\ ApiAnswers(p) => ares'[p].status = 403
              /\ GemsUntouched]_vars

\* C32 amended: the gem store is changed only by requests of authenticated
\* users whose role is superadmin or admin; a moderator reads gems with 200,
\* and every POST, PUT or DELETE by a moderator or another role is answered
\* 403, or 429 when it is a POST and the rate limit is exhausted, and leaves
\* the gem store and the audit log unchanged.
C32_GemRoleAccess ==
  [][\A p \in ApiProcs :
       (ApiBusy(p) /\ areq'[p].handler \in GemHandlers) =>
         /\ OnlyAdminsWriteModeratorsRead(p)
         /\ WriteByOtherRole(areq'[p]) =>
              /\ ApiAnswers(p) =>
                   IF areq'[p].handler = "gems.POST" /\ areq'[p].rateLimited
                   THEN ares'[p].status = 429
                   ELSE ares'[p].status = 403
              /\ GemsUntouched]_vars

\* a moderator's DELETE is answered 403 while an admin's POST has created a
\* gem and waits for its audit call; the stored gem is still there and
\* nothing was audited
C32_Witness ==
  \E p, q \in ApiProcs :
    /\ apc[p] = "done"
    /\ areq[p].handler = "gems.DELETE" /\ areq[p].authUser = <<"moderator", TRUE, FALSE>>
    /\ ares[p].status = 403
    /\ apc[q] = "audit" /\ areq[q].handler = "gems.POST"
    /\ areq[q].authUser = <<"admin", TRUE, FALSE>>
    /\ DOMAIN gems = {1, 2}
    /\ audit = <<>>

----------------------------------------------------------------------------
(* Properties of the payment-intent response *)

\* the text is a number with exactly two decimals: whole part, point, two digits
TwoDecimals(v) == v.kind = "text" /\ Len(v.text) = 4 /\ v.text[2] = "."

\* the payment record the response names
RecordOf(res) == {i \in 1..Len(payments) : payments[i].id = res.payment_id}

\* C33: in every successful payment-intent response the hash was computed
\* over exactly the merchant_id, order_id, amount and currency returned in the
\* same payhere_fields, the amount being the two-decimal string, and the
\* persisted record has the same order_id, currency and merchant_id with
\* status pending.
C33_HashCoversReturnedFields ==
  \A p \in Procs :
    pres[p].status = 200 =>
      LET fields == pres[p].payhere_fields
      IN  /\ fields.hash.over =
               <<fields.merchant_id, fields.order_id, fields.amount, fields.currency>>
          /\ TwoDecimals(fields.amount)
          /\ RecordOf(pres[p]) # {}
          /\ \A i \in RecordOf(pres[p]) :
               /\ payments[i].order_id = fields.order_id
               /\ payments[i].currency = fields.currency
               /\ payments[i].merchant_id = fields.merchant_id
               /\ payments[i].status = "pending"

\* a payment of 1.00 LKR succeeded and its fields carry the amount "1.00"
C33_Witness ==
  /\ pres["r1"].status = 200
  /\ preq["r1"].amount = AMOUNT_MIN * Hundredths
  /\ pres["r1"].payhere_fields.amount = Text(<<"1", ".", "0", "0">>)
  /\ pres["r1"].payhere_fields.currency = LKR

----------------------------------------------------------------------------
(* Properties of the login cookies *)

\* the gate has answered the first guarded request sent with the cookies of a login
FirstAfterLogin == Finished /\ Guarded /\ session.phase = "fresh"

\* the login response sets lastActivity to the login time together with the
\* provider's session cookies, or no cookie at all
LoginCookiesAllOrNone ==
  LoginFinished =>
    IF lres.success
    THEN /\ LastActivityOf(lres.cookies) = Digits(now)
         /\ SessionCookies(lreq.signIn.uid) \subseteq lres.cookies
    ELSE lres.cookies = {}

\* C34 as stated, with the arrival of the request as the time it is sent: a
\* fully successful login sets lastActivity to the login time together with
\* the provider's session cookies, so the first gate request sent with those
\* cookies within sessionTimeoutMs of the login is not denied with
\* session_expired; every other login response sets no cookie at all.
C34_LoginStartsIdleClock_Stated ==
  /\ LoginCookiesAllOrNone
  /\ (FirstAfterLogin /\ ArrivedSinceLastAllowed <= sessionTimeoutMs) =>
       gres.reason # "session_expired"

\* C34: a fully successful login sets lastActivity to the login time together
\* with the provider's session cookies, so the first gate request sent with
\* those cookies whose idle check is made within sessionTimeoutMs of the login
\* is not denied with session_expired; every other login response sets no
\* cookie at all.
C34_LoginStartsIdleClock ==
  /\ LoginCookiesAllOrNone
  /\ (FirstAfterLogin /\ SinceLastAllowed <= sessionTimeoutMs) =>
       gres.reason # "session_expired"

\* the first request after a login arrives one millisecond after it, its idle
\* check is made exactly sessionTimeoutMs after the login, and it is allowed
C34_Witness ==
  /\ FirstAfterLogin
  /\ greq.lastActivity = Digits(session.lastAllowed)
  /\ ArrivedSinceLastAllowed = 1
  /\ SinceLastAllowed = sessionTimeoutMs
  /\ Allowed

----------------------------------------------------------------------------
(* Properties of the two-factor code *)

\* the login passed every check before the two-factor step, for a user with
\* two_factor_enabled, and the request supplies a code
CodeSupplied ==
  /\ LoginFinished /\ ProfileFound
  /\ LoginProfileOf.is_active
  /\ LoginProfileOf.role \in {"superadmin", "admin", "moderator"}
  /\ LoginProfileOf.two_factor_enabled
  /\ lreq.twoFactorToken.kind = "text" /\ lreq.twoFactorToken.text # <<>>

\* C35: for a user with two_factor_enabled who passed all earlier login
\* checks, a supplied code whose length is not exactly 6 is answered 401 with
\* no cookie set, and a supplied code of length exactly 6, whatever its
\* content, leads to full login success with session cookies.
C35_TwoFactorCodeLength ==
  CodeSupplied =>
    IF Len(lreq.twoFactorToken.text) = 6
    THEN /\ lres.status = 200 /\ lres.success
         /\ SessionCookies(lreq.signIn.uid) \subseteq lres.cookies
    ELSE lres.status = 401 /\ lres.cookies = {}

\* a code of six letters logs an admin with two_factor_enabled in
C35_Witness ==
  /\ CodeSupplied
  /\ lreq.twoFactorToken = Text(<<"a", "b", "c", "d", "e", "f">>)
  /\ lres.success
  /\ lres.cookies # {}

----------------------------------------------------------------------------
(* Properties of the session after a logout *)

\* C36: after a successful logout, every later request from the same browser
\* to a non-public administrative path is denied by the gate, never allowed
\* through, until the next fully successful login.
C36_DeniedAfterLogout ==
  (Finished /\ Guarded /\ session.loggedOut) => gres.outcome # "next"

----------------------------------------------------------------------------
(* Properties of failed payment-intent requests *)

\* in this step invocation p answers its request with an error
AnswersWithError(p) == ppc[p] # "done" /\ ppc'[p] = "done" /\ pres'[p].status >= 400

\* the records invocation p has inserted while handling its request
CreatedBy(p) == {i \in 1..Len(payments) : payments[i].id = pres[p].payment_id}

\* C37: a payment-intent request that ends with an error response (429, 400,
\* 409 or 5xx) leaves the payment store exactly as it was before the
\* request; a failure while writing the audit entry leaves no pending
\* PaymentRecord behind.
C37_FailedPaymentLeavesStore ==
  [][\A p \in Procs :
       AnswersWithError(p) => (payments' = payments /\ CreatedBy(p) = {})]_vars

----------------------------------------------------------------------------
(* Properties of the last-login update *)

\* the steps of the log at which the handler attempted the last-login update
LastLoginAttempts == {i \in 1..Len(llog) : llog[i] = "lastLogin"}

\* the checks that come after the update
LaterChecks == {"profile", "active", "role", "twoFactor"}

\* one attempt for accepted credentials, before every later check; none otherwise
AttemptedOnceIffAccepted ==
  IF CredentialsAccepted
  THEN /\ Cardinality(LastLoginAttempts) = 1
       /\ \A i \in LastLoginAttempts, j \in 1..Len(llog) : llog[j] \in LaterChecks => i < j
  ELSE LastLoginAttempts = {}

\* the update call of this request did not fail
UpdateWorked == CredentialsAccepted /\ lreq.fault # "updateLastLogin"

\* the statuses of the logins that stop at a check after the update
StoppedLater(res) == res.status \in {403, 401} \/ res.requires2FA

\* C38 as stated: the handler attempts the last-login update exactly once for
\* every request whose credentials the provider accepts, before the profile,
\* active, role and two-factor checks, so last_login is updated also for
\* logins that end in 404, 403, 401 or requires2FA; it is never attempted when
\* email or password is missing or the provider rejects the credentials.
C38_LastLoginBeforeChecks_Stated ==
  LoginFinished =>
    /\ AttemptedOnceIffAccepted
    /\ (UpdateWorked /\ (lres.status = 404 \/ StoppedLater(lres))) =>
         /\ lreq.signIn.uid \in DOMAIN users
         /\ users[lreq.signIn.uid].last_login = now

\* C38 amended: the handler attempts the last-login update exactly once for
\* every request whose credentials the provider accepts, before the profile,
\* active, role and two-factor checks, so last_login is updated also for
\* logins that end in 403, 401 or requires2FA, while a login that ends in 404
\* has no profile whose last_login could change; it is never attempted when
\* email or password is missing or the provider rejects the credentials.
C38_LastLoginBeforeChecks ==
  LoginFinished =>
    /\ AttemptedOnceIffAccepted
    /\ (UpdateWorked /\ StoppedLater(lres)) =>
         /\ lreq.signIn.uid \in DOMAIN users
         /\ users[lreq.signIn.uid].last_login = now
    /\ (UpdateWorked /\ lres.status = 404) => lreq.signIn.uid \notin DOMAIN users

\* a customer with accepted credentials is refused for the role, and the
\* customer's last_login is the time of this login
C38_Witness ==
  /\ LoginFinished /\ UpdateWorked
  /\ lreq.signIn.uid = <<"customer", TRUE, FALSE>>
  /\ lres = JsonError(403, "Access denied. Insufficient privileges.")
  /\ users[lreq.signIn.uid].last_login = now
  /\ Cardinality(LastLoginAttempts) = 1

----------------------------------------------------------------------------
(* Properties of the profile update *)

\* invocation p of the profile handler takes this step of a request
ProfileStep(p) == profileReq'[p] # profileReq[p] /\ profileReq'[p].pc # "ready"

\* invocation p returns its response in this step
ProfileAnswers(p) == profileReq[p].pc # "done" /\ profileReq'[p].pc = "done"

\* the row with its first_name, last_name and phone put back to those of old
SaveNames(row, old) ==
  [row EXCEPT !.first_name = old.first_name, !.last_name = old.last_name,
              !.phone = old.phone]

\* C39: a profile update changes only first_name, last_name and phone of the
\* profile of the authenticated caller: role, is_active, email,
\* two_factor_enabled and last_login of that profile and every field of every
\* other profile stay unchanged, and an unauthenticated request is answered
\* 401 with no change.
C39_ProfileUpdateFrame ==
  [][\A p \in ProfileProcs :
       ProfileStep(p) =>
         /\ DOMAIN users' = DOMAIN users
         /\ \A u \in DOMAIN users :
              IF u = profileReq'[p].authUser
              THEN SaveNames(users'[u], users[u]) = users[u]
              ELSE users'[u] = users[u]
         /\ profileReq'[p].authUser = Anonymous =>
              /\ users' = users
              /\ ProfileAnswers(p) => profileRes'[p].status = 401]_vars

\* an admin has the names and the phone changed and is still an admin
C39_Witness ==
  \E p \in ProfileProcs :
    /\ profileReq[p].pc = "done"
    /\ profileReq[p].method = "PUT"
    /\ profileRes[p].status = 200
    /\ profileReq[p].authUser = <<"admin", TRUE, FALSE>>
    /\ users[profileReq[p].authUser].first_name = Text(<<"Bob">>)
    /\ users[profileReq[p].authUser].phone = Text(<<"555">>)
    /\ users[profileReq[p].authUser].role = "admin"

====
